---- MODULE Spec2Model ----
(***************************************************************************)
(* A model of the tar/zip archive package (package archive): the filter    *)
(* matcher of util.go, the tar session and codec of tar.go (Tar, ListTar,  *)
(* UnTar, openTarFile, createTarFile, closeTarFile, extractTarFile,        *)
(* writeTarFile, detectCompression) and the zip codec (Zip, UnZip).        *)
(*                                                                         *)
(* A Go string is a sequence of one-character strings, so that splitting,  *)
(* cleaning and joining paths are computed and not assumed.  A tar file is *)
(* a sequence of 512-byte blocks: header blocks, data blocks, zero blocks. *)
(***************************************************************************)
EXTENDS Integers, Sequences, FiniteSets, TLC

VARIABLES fs, arch, last, ops, sess

vars == <<fs, arch, last, ops, sess>>

\* last before any call was made
Idle == [op |-> "none"]

(***************************************************************************)
(* Strings                                                                 *)
(***************************************************************************)
Sep == "/"

\* the byte value of a character of the model's alphabet (ASCII)
Ord(c) ==
    CASE c = "\n" -> 10
      [] c = " " -> 32
      [] c = "." -> 46
      [] c = "/" -> 47
      [] c = "1" -> 49
      [] c = "2" -> 50
      [] c = "3" -> 51
      [] c = "4" -> 52
      [] c = "5" -> 53
      [] c = "B" -> 66
      [] c = "Z" -> 90
      [] c = "a" -> 97
      [] c = "b" -> 98
      [] c = "c" -> 99
      [] c = "d" -> 100
      [] c = "e" -> 101
      [] c = "h" -> 104
      [] c = "i" -> 105
      [] c = "k" -> 107
      [] c = "n" -> 110
      [] c = "o" -> 111
      [] c = "p" -> 112
      [] c = "s" -> 115
      [] c = "t" -> 116
      [] c = "u" -> 117
      [] c = "w" -> 119
      [] c = "x" -> 120
      [] c = "z" -> 122

\* s < t in Go's string order (bytewise, a proper prefix first)
RECURSIVE StrLessFrom(_, _, _)
StrLessFrom(s, t, i) ==
    IF i > Len(s) THEN i <= Len(t)
    ELSE IF i > Len(t) THEN FALSE
    ELSE IF s[i] = t[i] THEN StrLessFrom(s, t, i + 1)
    ELSE Ord(s[i]) < Ord(t[i])

StrLess(s, t) == StrLessFrom(s, t, 1)

\* strings.Split(s, "/"): always at least one element; "" gives <<"">>
RECURSIVE SplitFrom(_, _, _, _)
SplitFrom(s, i, cur, acc) ==
    IF i > Len(s) THEN Append(acc, cur)
    ELSE IF s[i] = Sep THEN SplitFrom(s, i + 1, <<>>, Append(acc, cur))
    ELSE SplitFrom(s, i + 1, Append(cur, s[i]), acc)

Split(s) == SplitFrom(s, 1, <<>>, <<>>)

\* strings.Join(segs, "/")
RECURSIVE JoinSegs(_)
JoinSegs(segs) ==
    IF Len(segs) = 0 THEN <<>>
    ELSE IF Len(segs) = 1 THEN segs[1]
    ELSE segs[1] \o <<Sep>> \o JoinSegs(Tail(segs))

HasPrefix(s, p) == Len(p) <= Len(s) /\ SubSeq(s, 1, Len(p)) = p

(***************************************************************************)
(* Go's path and path/filepath functions (slash-separated paths)           *)
(***************************************************************************)
IsAbs(p) == Len(p) > 0 /\ p[1] = Sep

\* the non-empty segments of a path
NonEmptySegs(p) == SelectSeq(Split(p), LAMBDA seg : seg # <<>>)

Dot == <<".">>
DotDot == <<".", ".">>

\* the element stack of path.Clean after the segments segs[i..]
RECURSIVE CleanStack(_, _, _, _)
CleanStack(segs, i, rooted, stack) ==
    IF i > Len(segs) THEN stack
    ELSE IF segs[i] = Dot THEN CleanStack(segs, i + 1, rooted, stack)
    ELSE IF segs[i] = DotDot THEN
        IF Len(stack) > 0 /\ stack[Len(stack)] # DotDot
        THEN CleanStack(segs, i + 1, rooted, SubSeq(stack, 1, Len(stack) - 1))
        ELSE IF rooted THEN CleanStack(segs, i + 1, rooted, stack)
        ELSE CleanStack(segs, i + 1, rooted, Append(stack, DotDot))
    ELSE CleanStack(segs, i + 1, rooted, Append(stack, segs[i]))

\* the path path.Clean returns for the element stack it is left with
CleanJoin(rooted, stack) ==
    IF rooted THEN <<Sep>> \o JoinSegs(stack)
    ELSE IF Len(stack) = 0 THEN Dot
    ELSE JoinSegs(stack)

\* path.Clean / filepath.Clean
Clean(p) == CleanJoin(IsAbs(p), CleanStack(NonEmptySegs(p), 1, IsAbs(p), <<>>))

\* path.Join(a, b): the non-empty elements joined by a separator and cleaned
Join(a, b) ==
    IF a = <<>> /\ b = <<>> THEN <<>>
    ELSE Clean(IF a = <<>> THEN b ELSE IF b = <<>> THEN a ELSE a \o <<Sep>> \o b)

\* the index of the last separator of p, 0 when it has none
RECURSIVE LastSepFrom(_, _)
LastSepFrom(p, i) ==
    IF i = 0 THEN 0 ELSE IF p[i] = Sep THEN i ELSE LastSepFrom(p, i - 1)

LastSep(p) == LastSepFrom(p, Len(p))

\* path.Dir
Dir(p) == Clean(SubSeq(p, 1, LastSep(p)))

\* p without its trailing separators
RECURSIVE TrimTrailingSeps(_)
TrimTrailingSeps(p) ==
    IF Len(p) > 0 /\ p[Len(p)] = Sep
    THEN TrimTrailingSeps(SubSeq(p, 1, Len(p) - 1))
    ELSE p

\* the last element of a non-empty path q that has no trailing separator
LastElement(q) ==
    IF q = <<>> THEN <<Sep>> ELSE SubSeq(q, LastSep(q) + 1, Len(q))

\* filepath.Base
Base(p) == IF p = <<>> THEN Dot ELSE LastElement(TrimTrailingSeps(p))

\* the length of the longest common prefix of two segment lists
RECURSIVE CommonLen(_, _, _)
CommonLen(a, b, i) ==
    IF i > Len(a) \/ i > Len(b) \/ a[i] # b[i] THEN i - 1
    ELSE CommonLen(a, b, i + 1)

\* the elements of a clean path, none for "."
RelSegs(p) == IF p = Dot THEN <<>> ELSE NonEmptySegs(p)

\* the result of filepath.Rel for the element lists bs and ts, which share
\* their first k elements
RelResult(rootedDiffer, bs, ts, k) ==
    IF rootedDiffer \/ \E i \in (k + 1)..Len(bs) : bs[i] = DotDot
    THEN [err |-> "ErrRel", path |-> <<>>]
    ELSE IF Len(bs) = k /\ Len(ts) = k THEN [err |-> "nil", path |-> Dot]
    ELSE [err |-> "nil",
          path |-> JoinSegs([i \in 1..(Len(bs) - k) |-> DotDot]
                            \o SubSeq(ts, k + 1, Len(ts)))]

RelSplit(rootedDiffer, bs, ts) ==
    RelResult(rootedDiffer, bs, ts, CommonLen(bs, ts, 1))

RelClean(base, targ) ==
    IF targ = base THEN [err |-> "nil", path |-> Dot]
    ELSE RelSplit(IsAbs(base) # IsAbs(targ), RelSegs(base), RelSegs(targ))

\* filepath.Rel(basepath, targpath): [err, path]
Rel(basepath, targpath) == RelClean(Clean(basepath), Clean(targpath))

(***************************************************************************)
(* util.go: the filter matcher                                             *)
(***************************************************************************)
min(a, b) == IF a < b THEN a ELSE b

prepareFilters(filters) == [i \in 1..Len(filters) |-> Split(filters[i])]

\* the inner loop with a prefix comparison of the segments
MatchLoopPrefix(pathDirs, filter, i, count) ==
    \A j \in i..count : HasPrefix(filter[j], pathDirs[j])

\* the inner for-loop of optimizedMatches on one filter, from index i
RECURSIVE MatchLoop(_, _, _, _)
MatchLoop(pathDirs, filter, i, count) ==
    IF i = count + 1 THEN TRUE
    ELSE IF pathDirs[i] # filter[i] THEN FALSE
    ELSE MatchLoop(pathDirs, filter, i + 1, count)

\* one turn of the outer loop: whether the filter matches the path
FilterMatches(pathDirs, filter) ==
    MatchLoop(pathDirs, filter, 1, min(Len(pathDirs), Len(filter)))

\* the outer loop over the filters
AnyFilterMatches(pathDirs, filters) ==
    \E k \in 1..Len(filters) : FilterMatches(pathDirs, filters[k])

optimizedMatches(path, filters) ==
    IF Len(filters) = 0 THEN TRUE
    ELSE AnyFilterMatches(Split(path), filters)

(***************************************************************************)
(* The file system the package calls into (os.Lstat, os.Mkdir, ...).       *)
(* fs maps the absolute clean path of every object to its node.  Archive   *)
(* files are kept apart, in arch, by name.  Errors are errno names; "nil"  *)
(* is success.  A symbolic link on the way to a path is not followed: it   *)
(* counts as a non-directory.                                              *)
(***************************************************************************)
Cwd == <<Sep, "w">>

\* filepath.Abs
Abs(p) == Clean(IF IsAbs(p) THEN p ELSE Cwd \o <<Sep>> \o p)

DirNode == [kind |-> "dir", data |-> <<>>, link |-> <<>>, readable |-> TRUE]
FileNode(d) == [kind |-> "file", data |-> d, link |-> <<>>, readable |-> TRUE]
LinkNode(l) == [kind |-> "symlink", data |-> <<>>, link |-> l, readable |-> TRUE]
NoNode == [kind |-> "none", data |-> <<>>, link |-> <<>>, readable |-> FALSE]
\* a file os.Open refuses to open
LockedNode(d) == [kind |-> "file", data |-> d, link |-> <<>>, readable |-> FALSE]

\* the proper ancestors of the absolute clean path a
Ancestors(a) ==
    IF a = <<Sep>> THEN {}
    ELSE {<<Sep>>} \cup {SubSeq(a, 1, i - 1) : i \in {j \in 2..Len(a) : a[j] = Sep}}

\* whether the way to the absolute path a goes through a non-directory
ThroughNonDir(f, a) ==
    \E d \in Ancestors(a) : d \in DOMAIN f /\ f[d].kind # "dir"

\* why an absent path cannot be reached: a missing or a non-directory parent
MissingErr(f, a) == IF ThroughNonDir(f, a) THEN "ENOTDIR" ELSE "ENOENT"

\* os.IsNotExist
IsNotExist(err) == err = "ENOENT"

\* os.IsExist
IsExist(err) == err = "EEXIST"

LstatAbs(f, a) ==
    IF a \in DOMAIN f THEN [err |-> "nil", node |-> f[a]]
    ELSE [err |-> MissingErr(f, a), node |-> NoNode]

\* os.Lstat: [err, node]
Lstat(f, p) == LstatAbs(f, Abs(p))

IsDir(node) == node.kind = "dir"

\* f with the node n at the absolute path a
Put(f, a, n) == [q \in DOMAIN f \cup {a} |-> IF q = a THEN n ELSE f[q]]

\* why nothing can be created at the absent absolute path a; "nil" if it can
CreateErr(f, a) ==
    IF ThroughNonDir(f, a) THEN "ENOTDIR"
    ELSE IF Dir(a) \notin DOMAIN f THEN "ENOENT"
    ELSE "nil"

\* the node n created at the absolute path a unless err forbids it
Create(f, a, n, err) ==
    IF err # "nil" THEN [err |-> err, fs |-> f]
    ELSE [err |-> "nil", fs |-> Put(f, a, n)]

MkdirAbs(f, a) ==
    IF a \in DOMAIN f THEN [err |-> "EEXIST", fs |-> f]
    ELSE Create(f, a, DirNode, CreateErr(f, a))

\* os.Mkdir: [err, fs]
Mkdir(f, p) == MkdirAbs(f, Abs(p))

\* os.MkdirAll: [err, fs]
RECURSIVE MkdirAllAbs(_, _)
RECURSIVE MkdirAllUnder(_, _)
MkdirAllAbs(f, a) ==
    IF a \in DOMAIN f
    THEN [err |-> IF f[a].kind = "dir" THEN "nil" ELSE "ENOTDIR", fs |-> f]
    ELSE MkdirAllUnder(a, MkdirAllAbs(f, Dir(a)))

MkdirAllUnder(a, up) ==
    IF up.err # "nil" THEN up ELSE [err |-> "nil", fs |-> Put(up.fs, a, DirNode)]

MkdirAll(f, p) == MkdirAllAbs(f, Abs(p))

RemoveAbs(f, a) ==
    IF a \notin DOMAIN f THEN [err |-> MissingErr(f, a), fs |-> f]
    ELSE IF f[a].kind = "dir" /\ \E q \in DOMAIN f : q # a /\ Dir(q) = a
    THEN [err |-> "ENOTEMPTY", fs |-> f]
    ELSE [err |-> "nil", fs |-> [q \in DOMAIN f \ {a} |-> f[q]]]

\* os.Remove: [err, fs]
Remove(f, p) == RemoveAbs(f, Abs(p))

SymlinkAbs(f, oldname, a) ==
    IF a \in DOMAIN f THEN [err |-> "EEXIST", fs |-> f]
    ELSE Create(f, a, LinkNode(oldname), CreateErr(f, a))

\* os.Symlink(oldname, newname): [err, fs]
Symlink(f, oldname, newname) == SymlinkAbs(f, oldname, Abs(newname))

createFileAbs(f, a, data) ==
    IF a \in DOMAIN f
    THEN IF f[a].kind = "dir" THEN [err |-> "EISDIR", fs |-> f]
         ELSE [err |-> "nil", fs |-> Put(f, a, FileNode(data))]
    ELSE Create(f, a, FileNode(data), CreateErr(f, a))

\* createFile(filePath, mode, reader): creates the file and copies the
\* reader's bytes into it: [err, fs]
createFile(f, filePath, data) == createFileAbs(f, Abs(filePath), data)

\* readDirNames: the names in the directory a
ChildNames(f, a) == {Base(q) : q \in {r \in DOMAIN f : r # a /\ Dir(r) = a}}

\* the least name of a non-empty set, in string order
LeastName(S) == CHOOSE x \in S : \A y \in S \ {x} : StrLess(x, y)

\* sort.Strings on the names
RECURSIVE SortNames(_)
RECURSIVE SortAfter(_, _)
SortNames(S) == IF S = {} THEN <<>> ELSE SortAfter(S, LeastName(S))

SortAfter(S, m) == <<m>> \o SortNames(S \ {m})

(***************************************************************************)
(* Archive files.  A file is [kind, blocks, zents, cut]: kind says what    *)
(* its bytes are ("raw": the tar blocks themselves, "gzip"/"bzip2": a      *)
(* compressed stream of tar blocks, "zip": a zip of the entries zents,     *)
(* "absent": no file); cut marks a compressed stream that was never        *)
(* finished.                                                               *)
(***************************************************************************)
BlockSize == 512

NoFile == [kind |-> "absent", blocks |-> <<>>, zents |-> <<>>, cut |-> FALSE]
RawFile(bs) == [kind |-> "raw", blocks |-> bs, zents |-> <<>>, cut |-> FALSE]
GzipFile(bs, cut) == [kind |-> "gzip", blocks |-> bs, zents |-> <<>>, cut |-> cut]
Bzip2File(bs) == [kind |-> "bzip2", blocks |-> bs, zents |-> <<>>, cut |-> FALSE]
ZipFile(es) == [kind |-> "zip", blocks |-> <<>>, zents |-> es, cut |-> FALSE]

ZeroBlock ==
    [t |-> "zero", name |-> <<>>, typeflag |-> "none", size |-> 0,
     linkname |-> <<>>, bytes |-> <<>>]
HeaderBlock(h) ==
    [t |-> "hdr", name |-> h.name, typeflag |-> h.typeflag, size |-> h.size,
     linkname |-> h.linkname, bytes |-> <<>>]
DataBlock(b) ==
    [t |-> "dat", name |-> <<>>, typeflag |-> "none", size |-> 0,
     linkname |-> <<>>, bytes |-> b]

\* the number of 512-byte blocks that n bytes of content take
BlocksFor(n) == (n + BlockSize - 1) \div BlockSize

DataBlocks(data) ==
    [i \in 1..BlocksFor(Len(data)) |->
        DataBlock(SubSeq(data, (i - 1) * BlockSize + 1,
                         min(i * BlockSize, Len(data))))]

\* the bytes of a block as the sniffer sees them: their first four
FirstBytes(seq) == [i \in 1..4 |-> IF i <= Len(seq) THEN Ord(seq[i]) ELSE 0]

\* the size of the file in bytes
FileSize(file) ==
    CASE file.kind = "raw" -> Len(file.blocks) * BlockSize
      [] file.kind = "absent" -> 0
      [] OTHER -> 4 + Len(file.blocks) * BlockSize

\* what file.Read(source) puts in the 4-byte buffer; <<>> at end of file
LeadingBytes(file) ==
    CASE file.kind = "gzip" -> <<31, 139, 8, 0>>
      [] file.kind = "bzip2" -> <<66, 90, 104, 57>>
      [] file.kind = "zip" -> <<80, 75, 3, 4>>
      [] OTHER ->
        IF Len(file.blocks) = 0 THEN <<>>
        ELSE IF file.blocks[1].t = "hdr" THEN FirstBytes(file.blocks[1].name)
        ELSE IF file.blocks[1].t = "dat" THEN FirstBytes(file.blocks[1].bytes)
        ELSE <<0, 0, 0, 0>>

GzipMagic == <<31, 139, 8>>
Bzip2Magic == <<66, 90, 104>>

\* the loop of detectCompression over the two magic numbers
DetectIn(source) ==
    IF SubSeq(source, 1, 3) = Bzip2Magic THEN "Bzip2"
    ELSE IF SubSeq(source, 1, 3) = GzipMagic THEN "Gzip"
    ELSE "Uncompressed"

\* the file offset left as file.Read put it
SeekStartKept(offset) == offset

\* file.Seek(0, os.SEEK_SET): the file offset afterwards
SeekStart(offset) == 0

\* the result of detectCompression once file.Read has filled source, the
\* bytes it read: [err, compression, offset], offset the file offset
\* detectCompression leaves
DetectRead(source) ==
    IF Len(source) = 0
    THEN [err |-> "EOF", compression |-> "Uncompressed", offset |-> 0]
    ELSE [err |-> "nil", compression |-> DetectIn(source),
          offset |-> SeekStart(Len(source))]

\* detectCompression(file): [err, compression]
detectCompression(file) == DetectRead(LeadingBytes(file))

(***************************************************************************)
(* The tarFile session.  File is the state of the os.File handle;          *)
(* TarReader, TarWriter, CompressReader, CompressWriter say which layers   *)
(* are non-nil.  file is the archive file on disk, stream the blocks in    *)
(* a compression writer that were not flushed yet, pos the file offset of  *)
(* the tar writer in bytes, nb the bytes the current entry still misses,   *)
(* comp the compression the reader was built for, cur the file offset the  *)
(* reader was built at.                                                    *)
(***************************************************************************)
NoSession ==
    [File |-> "nil", TarReader |-> FALSE, TarWriter |-> FALSE,
     CompressReader |-> FALSE, CompressWriter |-> FALSE,
     file |-> NoFile, stream |-> <<>>, pos |-> 0, nb |-> 0,
     comp |-> "Uncompressed", cur |-> 0]

\* the streams a session holds: the fields of tarFile that are not nil
Layers(tf) ==
    [TarReader |-> tf.TarReader, TarWriter |-> tf.TarWriter,
     CompressReader |-> tf.CompressReader, CompressWriter |-> tf.CompressWriter]

\* bs written over the blocks of the file from block index idx (0-based)
Overwrite(blocks, idx, bs) ==
    SubSeq(blocks, 1, idx) \o bs \o SubSeq(blocks, idx + Len(bs) + 1, Len(blocks))

\* the tar writer hands blocks to the layer below it
WriteBlocks(tf, bs) ==
    IF tf.CompressWriter
    THEN [tf EXCEPT !.stream = tf.stream \o bs]
    ELSE [tf EXCEPT
            !.file = RawFile(Overwrite(tf.file.blocks, tf.pos \div BlockSize, bs)),
            !.pos = tf.pos + Len(bs) * BlockSize]

ErrAppendNotSupported == "ErrAppendNotSupported"
ErrBzip2NotSupported == "ErrBzip2NotSupported"

\* createTarFile with os.Create ahead of the test for Bzip2
createTarFileCreatesFirst(file0, compression) ==
    IF compression = "Bzip2"
    THEN [err |-> ErrBzip2NotSupported,
          tf |-> [NoSession EXCEPT !.file = RawFile(<<>>)], open |-> 1]
    ELSE [err |-> "nil",
          tf |-> [NoSession EXCEPT !.File = "open", !.TarWriter = TRUE,
                                   !.CompressWriter = (compression = "Gzip"),
                                   !.file = RawFile(<<>>)],
          open |-> 1]

\* createTarFile(name, compression): [err, tf, open], open the number of
\* os.File handles that are open when it returns
createTarFile(file0, compression) ==
    IF compression = "Bzip2"
    THEN [err |-> ErrBzip2NotSupported, tf |-> [NoSession EXCEPT !.file = file0],
          open |-> 0]
    ELSE [err |-> "nil",
          tf |-> [NoSession EXCEPT !.File = "open", !.TarWriter = TRUE,
                                   !.CompressWriter = (compression = "Gzip"),
                                   !.file = RawFile(<<>>)],
          open |-> 1]

\* the offset of file.Seek(-2<<9, os.SEEK_END)
AppendOffset(file) == FileSize(file) - 2 * BlockSize

\* openTarFile that lets an append through whatever the compression is
OpenDetectedAppendAny(file0, append, d) ==
    IF d.err # "nil"
    THEN [err |-> d.err, tf |-> [NoSession EXCEPT !.file = file0], open |-> 1]
    ELSE [err |-> "nil",
          tf |-> [NoSession EXCEPT
                    !.file = file0,
                    !.File = "open",
                    !.TarReader = TRUE,
                    !.TarWriter = append,
                    !.CompressReader = (d.compression # "Uncompressed"),
                    !.pos = IF append THEN FileSize(file0) ELSE 0,
                    !.comp = d.compression,
                    !.cur = d.offset],
          open |-> 1]

\* openTarFile after os.OpenFile succeeded and detectCompression returned d
OpenDetected(file0, append, d) ==
    IF d.err # "nil"
    THEN [err |-> d.err, tf |-> [NoSession EXCEPT !.file = file0], open |-> 1]
    ELSE IF append /\ d.compression # "Uncompressed"
    THEN [err |-> ErrAppendNotSupported, tf |-> [NoSession EXCEPT !.file = file0],
          open |-> 1]
    ELSE IF append /\ AppendOffset(file0) < 0
    THEN [err |-> "EINVAL", tf |-> [NoSession EXCEPT !.file = file0], open |-> 0]
    ELSE [err |-> "nil",
          tf |-> [NoSession EXCEPT
                    !.file = file0,
                    !.File = "open",
                    !.TarReader = TRUE,
                    !.TarWriter = append,
                    !.CompressReader = (d.compression # "Uncompressed"),
                    !.pos = IF append THEN AppendOffset(file0) ELSE 0,
                    !.comp = d.compression,
                    !.cur = d.offset],
          open |-> 1]

\* openTarFile(name, append): [err, tf, open]
openTarFile(file0, append) ==
    IF file0.kind = "absent"
    THEN [err |-> "ENOENT", tf |-> [NoSession EXCEPT !.file = file0], open |-> 0]
    ELSE OpenDetected(file0, append, detectCompression(file0))

\* tar.Writer.Close: fails when the current entry misses bytes, else writes
\* the two zero blocks that end the archive
TarWriterClose(tf) ==
    IF tf.nb > 0 THEN [err |-> "ErrMissedWriting", tf |-> tf]
    ELSE [err |-> "nil", tf |-> WriteBlocks(tf, <<ZeroBlock, ZeroBlock>>)]

\* the file on disk when a compression writer is dropped without Close
Unflushed(tf) ==
    IF tf.CompressWriter /\ Len(tf.stream) > 0 THEN GzipFile(<<>>, TRUE)
    ELSE tf.file

\* the file on disk once every layer was closed
Flushed(tf) == IF tf.CompressWriter THEN GzipFile(tf.stream, FALSE) ELSE tf.file

\* the layers closeTarFile closes, in order
ClosedLayers(tf) ==
    (IF tf.TarWriter THEN <<"tarWriter">> ELSE <<>>)
    \o (IF tf.CompressReader THEN <<"compressReader">> ELSE <<>>)
    \o (IF tf.CompressWriter THEN <<"compressWriter">> ELSE <<>>)
    \o <<"file">>

\* closeTarFile after the tar writer, if any, was closed with result w
CloseLayers(tf, remove, w) ==
    IF w.err # "nil"
    THEN [err |-> w.err, file |-> Unflushed(tf), closed |-> <<>>, open |-> 1]
    ELSE [err |-> "nil",
          file |-> IF remove THEN NoFile ELSE Flushed(w.tf),
          closed |-> ClosedLayers(tf),
          open |-> 0]

\* closeTarFile(tf, remove): [err, file, closed, open]: the file left on
\* disk, the layers closed in order, the handles still open
closeTarFile(tf, remove) ==
    CloseLayers(tf, remove,
                IF tf.TarWriter THEN TarWriterClose(tf) ELSE [err |-> "nil", tf |-> tf])

(***************************************************************************)
(* The write path: Tar, its walk function and writeTarFile                 *)
(***************************************************************************)
TypeflagOf(node) ==
    CASE node.kind = "dir" -> "Dir"
      [] node.kind = "file" -> "Reg"
      [] node.kind = "symlink" -> "Symlink"
      [] OTHER -> "Fifo"

IsRegular(typeflag) == typeflag \in {"Reg", "RegA"}

\* tar.FileInfoHeader with header.Name set to name
FileInfoHeader(node, name) ==
    [name |-> name, typeflag |-> TypeflagOf(node),
     size |-> IF node.kind = "file" THEN Len(node.data) ELSE 0,
     linkname |-> node.link]

\* writer.WriteHeader(header)
WriteHeader(tf, header) ==
    [WriteBlocks(tf, <<HeaderBlock(header)>>) EXCEPT !.nb = header.size]

\* io.Copy(writer, file)
CopyData(tf, data) == [WriteBlocks(tf, DataBlocks(data)) EXCEPT !.nb = 0]

\* writeTarFile after the header was written: the content of a regular file
WriteContent(node, header, tf1) ==
    IF ~IsRegular(header.typeflag) THEN [err |-> "nil", tf |-> tf1]
    ELSE IF ~node.readable THEN [err |-> "EACCES", tf |-> tf1]
    ELSE [err |-> "nil", tf |-> CopyData(tf1, node.data)]

\* writeTarFile after os.Lstat returned st
WriteStat(name, tf, st) ==
    IF st.err # "nil" THEN [err |-> st.err, tf |-> tf]
    ELSE WriteContent(st.node, FileInfoHeader(st.node, name),
                      WriteHeader(tf, FileInfoHeader(st.node, name)))

\* writeTarFile(filePath, name, writer): [err, tf]
writeTarFile(f, filePath, name, tf) == WriteStat(name, tf, Lstat(f, filePath))

\* the entry writeZipFile makes for a node
ZipEntry(name, node, data) ==
    [name |-> IF IsDir(node) THEN name \o <<Sep>> ELSE name,
     kind |-> node.kind, data |-> data]

\* the path os.Open resolves filePath to: a symbolic link is followed once
OpenTarget(filePath, node) ==
    IF node.kind # "symlink" THEN filePath
    ELSE IF IsAbs(node.link) THEN node.link
    ELSE Dir(Abs(filePath)) \o <<Sep>> \o node.link

\* writeZipFile after the entry was created: the content, read through
\* os.Open, which returned opened
ZipContent(name, zf, node, opened) ==
    IF opened.err # "nil" THEN [err |-> opened.err, tf |-> zf]
    ELSE IF ~opened.node.readable THEN [err |-> "EACCES", tf |-> zf]
    ELSE IF IsDir(opened.node) THEN [err |-> "EISDIR", tf |-> zf]
    ELSE [err |-> "nil",
          tf |-> [zf EXCEPT !.stream[Len(zf.stream)] =
                               ZipEntry(name, node, opened.node.data)]]

\* writeZipFile after os.Lstat returned st
ZipStat(f, filePath, name, zf, st) ==
    IF st.err # "nil" THEN [err |-> st.err, tf |-> zf]
    ELSE IF IsDir(st.node)
    THEN [err |-> "nil",
          tf |-> [zf EXCEPT !.stream = Append(zf.stream, ZipEntry(name, st.node, <<>>))]]
    ELSE ZipContent(name,
                    [zf EXCEPT !.stream = Append(zf.stream, ZipEntry(name, st.node, <<>>))],
                    st.node, Lstat(f, OpenTarget(filePath, st.node)))

\* writeZipFile(filePath, name, writer): [err, tf]
writeZipFile(f, filePath, name, zf) ==
    ZipStat(f, filePath, name, zf, Lstat(f, filePath))

\* the walk function that writes every object, whatever the filters are
WalkFnRelUnfiltered(ctx, filePath, st, rel) ==
    IF rel.err # "nil" THEN [st EXCEPT !.err = rel.err]
    ELSE IF rel.path = Dot THEN st
    ELSE IF ctx.zip THEN writeZipFile(ctx.fs, filePath, rel.path, st.tf)
    ELSE writeTarFile(ctx.fs, filePath, rel.path, st.tf)

\* the walk function once filepath.Rel returned rel
WalkFnRel(ctx, filePath, st, rel) ==
    IF rel.err # "nil" THEN [st EXCEPT !.err = rel.err]
    ELSE IF rel.path = Dot THEN st
    ELSE IF ~optimizedMatches(rel.path, ctx.filters) THEN st
    ELSE IF ctx.zip THEN writeZipFile(ctx.fs, filePath, rel.path, st.tf)
    ELSE writeTarFile(ctx.fs, filePath, rel.path, st.tf)

\* the function Tar and Zip hand to filepath.Walk;
\* ctx = [fs, relPath, filters, zip]
WalkFn(ctx, filePath, st) == WalkFnRel(ctx, filePath, st, Rel(ctx.relPath, filePath))

\* filepath.Walk over the tree at path: the state after the last call of
\* the walk function, or after the first call that returned an error
RECURSIVE WalkNode(_, _, _)
RECURSIVE WalkDir(_, _, _, _)
RECURSIVE WalkNames(_, _, _, _)
RECURSIVE WalkRest(_, _, _, _)
WalkNode(ctx, path, st) == WalkDir(ctx, path, Abs(path), WalkFn(ctx, path, st))

WalkDir(ctx, path, a, st1) ==
    IF st1.err # "nil" THEN st1
    ELSE IF ~IsDir(ctx.fs[a]) THEN st1
    ELSE IF ~ctx.fs[a].readable THEN [st1 EXCEPT !.err = "EACCES"]
    ELSE WalkNames(ctx, path, SortNames(ChildNames(ctx.fs, a)), st1)

WalkNames(ctx, path, names, st) ==
    IF Len(names) = 0 THEN st
    ELSE WalkRest(ctx, path, names, WalkNode(ctx, Join(path, names[1]), st))

WalkRest(ctx, path, names, r) ==
    IF r.err # "nil" THEN r ELSE WalkNames(ctx, path, Tail(names), r)

\* filepath.Walk(root, walkFn) once os.Lstat(root) returned info
WalkRoot(ctx, root, tf, info) ==
    IF info.err # "nil" THEN [err |-> info.err, tf |-> tf]
    ELSE WalkNode(ctx, root, [err |-> "nil", tf |-> tf])

Walk(ctx, root, tf) == WalkRoot(ctx, root, tf, Lstat(ctx.fs, root))

\* the names made relative to the source itself whatever the option says
RelPathOfSource(srcPath, srcIsDir, includeSourceDir) ==
    IF srcIsDir THEN srcPath ELSE Dir(srcPath)

\* the directory the archived names are relative to, for the clean srcPath
RelPathOf(srcPath, srcIsDir, includeSourceDir) ==
    IF srcIsDir /\ ~includeSourceDir THEN srcPath ELSE Dir(srcPath)

DefaultTarOptions ==
    [Append |-> FALSE, Compression |-> "Uncompressed",
     IncludeSourceDir |-> FALSE, Filters |-> <<>>]

\* the deferred closeTarFile of Tar, after the walk returned w
TarClose(w, c) ==
    [err |-> w.err, file |-> c.file, open |-> c.open, closed |-> c.closed,
     layers |-> Layers(w.tf)]

TarWalked(w) == TarClose(w, closeTarFile(w.tf, w.err # "nil"))

\* Tar from path.Clean on, srcPath clean
TarWalk(f, srcPath, srcIsDir, options, tf) ==
    TarWalked(Walk([fs |-> f,
                    relPath |-> RelPathOf(srcPath, srcIsDir, options.IncludeSourceDir),
                    filters |-> prepareFilters(options.Filters),
                    zip |-> FALSE],
                   srcPath, tf))

\* Tar once the archive was opened or created with result o
TarOpened(f, srcPath, srcInfo, options, o) ==
    IF o.err # "nil"
    THEN [err |-> o.err, file |-> o.tf.file, open |-> o.open, closed |-> <<>>,
          layers |-> Layers(o.tf)]
    ELSE TarWalk(f, Clean(srcPath), IsDir(srcInfo.node), options, o.tf)

\* Tar once os.Lstat(srcPath) returned srcInfo
TarStat(f, file0, srcPath, options, srcInfo) ==
    IF srcInfo.err # "nil"
    THEN [err |-> srcInfo.err, file |-> file0, open |-> 0, closed |-> <<>>,
          layers |-> Layers(NoSession)]
    ELSE TarOpened(f, srcPath, srcInfo, options,
                   IF options.Append THEN openTarFile(file0, TRUE)
                   ELSE createTarFile(file0, options.Compression))

\* Tar(name, srcPath, options): [err, file, open, closed], file the archive
\* file on disk when Tar returns
Tar(f, file0, srcPath, options) ==
    TarStat(f, file0, srcPath, options, Lstat(f, srcPath))

(***************************************************************************)
(* The read path: tar.Reader.Next over the blocks, ListTar                 *)
(***************************************************************************)
\* the kind of file a compression layer reads
KindOf(compression) ==
    CASE compression = "Gzip" -> "gzip"
      [] compression = "Bzip2" -> "bzip2"
      [] OTHER -> "raw"

\* whether the file is what the compression layer of the session reads
StreamOk(tf) == tf.file.kind = KindOf(tf.comp)

NoHeader == [name |-> <<>>, typeflag |-> "none", size |-> 0, linkname |-> <<>>]

RECURSIVE ConcatBytes(_)
ConcatBytes(bs) ==
    IF Len(bs) = 0 THEN <<>> ELSE bs[1].bytes \o ConcatBytes(Tail(bs))

\* tar.Reader.Next failing with e
NextFails(e, rpos) == [err |-> e, header |-> NoHeader, data |-> <<>>, rpos |-> rpos]

\* what the reader finds where the stream ends
AtEnd(file) == IF file.cut THEN "ErrUnexpectedEOF" ELSE "EOF"

\* the first size bytes of the content the blocks hold; a block that is
\* not one of content holds none
ContentBytes(bytes, size) == SubSeq(bytes, 1, min(size, Len(bytes)))

\* tar.Reader.Next on the header block b, followed by k blocks of content
NextEntry(blocks, rpos, b, k) ==
    IF rpos + 1 + k > Len(blocks) THEN NextFails("ErrUnexpectedEOF", rpos)
    ELSE [err |-> "nil",
          header |-> [name |-> b.name, typeflag |-> b.typeflag,
                      size |-> b.size, linkname |-> b.linkname],
          data |-> ContentBytes(ConcatBytes(SubSeq(blocks, rpos + 2, rpos + 1 + k)),
                                b.size),
          rpos |-> rpos + 1 + k]

\* tar.Reader.Next over the blocks of the stream, at block index rpos
NextBlock(file, blocks, rpos) ==
    IF rpos >= Len(blocks) THEN NextFails(AtEnd(file), rpos)
    ELSE IF blocks[rpos + 1].t = "zero"
    THEN IF rpos + 1 >= Len(blocks) THEN NextFails(AtEnd(file), rpos)
         ELSE IF blocks[rpos + 2].t = "zero" THEN NextFails("EOF", rpos)
         ELSE NextFails("ErrHeader", rpos)
    ELSE IF blocks[rpos + 1].t # "hdr" THEN NextFails("ErrHeader", rpos)
    ELSE NextEntry(blocks, rpos, blocks[rpos + 1], BlocksFor(blocks[rpos + 1].size))

\* tar.Reader.Next at block index rpos (0-based): [err, header, data, rpos]
TarNext(tf, rpos) ==
    IF ~StreamOk(tf) THEN NextFails("ErrFormat", rpos)
    ELSE IF tf.cur # 0 THEN NextFails("ErrHeader", rpos)
    ELSE NextBlock(tf.file, tf.file.blocks, rpos)

\* the loop of ListTar from rpos: [err, headers]
RECURSIVE ListLoop(_, _, _)
RECURSIVE ListNext(_, _, _)
ListLoop(tf, rpos, headers) == ListNext(tf, headers, TarNext(tf, rpos))

ListNext(tf, headers, n) ==
    IF n.err = "EOF" THEN [err |-> "nil", headers |-> headers]
    ELSE IF n.err # "nil" THEN [err |-> n.err, headers |-> <<>>]
    ELSE ListLoop(tf, n.rpos, Append(headers, n.header))

\* the deferred closeTarFile of ListTar, after the loop returned l
ListClose(o, l, c) ==
    [err |-> l.err, headers |-> l.headers, open |-> c.open, closed |-> c.closed,
     cursor |-> o.tf.cur, layers |-> Layers(o.tf)]

\* ListTar once openTarFile returned o
ListOpened(o) ==
    IF o.err # "nil"
    THEN [err |-> o.err, headers |-> <<>>, open |-> o.open, closed |-> <<>>,
          cursor |-> o.tf.cur, layers |-> Layers(o.tf)]
    ELSE ListClose(o, ListLoop(o.tf, 0, <<>>), closeTarFile(o.tf, FALSE))

\* ListTar(name): [err, headers, open]
ListTar(file0) == ListOpened(openTarFile(file0, FALSE))

\* os.ErrNotExist
ErrNotExist == "ErrNotExist"

\* TarReader.Close: [err, file, closed, open]
TarReaderClose(tf) == closeTarFile(tf, FALSE)

\* ReadTar returning after reader.Close(), whose result c it ignores
ReadTarClosed(o, err, header, c) ==
    [err |-> err, header |-> header, reader |-> FALSE, data |-> <<>>,
     tf |-> o.tf, open |-> c.open, closed |-> c.closed, cursor |-> o.tf.cur]

ReadTarEnds(o, err, header) == ReadTarClosed(o, err, header, TarReaderClose(o.tf))

\* ReadTar handing the reader to the caller, positioned at the content
ReadTarFound(o, n) ==
    [err |-> "nil", header |-> n.header, reader |-> TRUE, data |-> n.data,
     tf |-> o.tf, open |-> o.open, closed |-> <<>>, cursor |-> o.tf.cur]

\* the loop of ReadTar from block index rpos, name the clean fileName
RECURSIVE ReadTarLoop(_, _, _)
RECURSIVE ReadTarNext(_, _, _)
ReadTarLoop(o, name, rpos) == ReadTarNext(o, name, TarNext(o.tf, rpos))

ReadTarNext(o, name, n) ==
    IF n.err = "EOF" THEN ReadTarEnds(o, ErrNotExist, NoHeader)
    ELSE IF n.err # "nil" THEN ReadTarEnds(o, n.err, NoHeader)
    ELSE IF name # Clean(n.header.name) THEN ReadTarLoop(o, name, n.rpos)
    ELSE IF IsRegular(n.header.typeflag) THEN ReadTarFound(o, n)
    ELSE ReadTarEnds(o, "nil", n.header)

\* ReadTar once IterTar returned o
ReadTarIter(fileName, o) ==
    IF o.err # "nil"
    THEN [err |-> o.err, header |-> NoHeader, reader |-> FALSE, data |-> <<>>,
          tf |-> o.tf, open |-> o.open, closed |-> <<>>, cursor |-> o.tf.cur]
    ELSE ReadTarLoop(o, Clean(fileName), 0)

\* IterTar(name): [err, tf, open]
IterTar(file0) == openTarFile(file0, FALSE)

\* ReadTar(name, fileName): [err, header, reader, data, tf, open, closed,
\* cursor]; reader says whether a reader is returned, data is what it reads
ReadTar(file0, fileName) == ReadTarIter(fileName, IterTar(file0))

(***************************************************************************)
(* Extraction: UnTar and extractTarFile                                    *)
(***************************************************************************)
\* the overwrite policy with the skip left out
KeepExistingNever(noOverride) == FALSE

\* the overwrite policy with every existing file left alone
KeepExistingAlways(noOverride) == TRUE

\* whether an existing non-directory at the destination is left alone
KeepExisting(noOverride) == noOverride

\* the result of extractTarFile for the result r of its last system call
Extracted(r) ==
    [err |-> r.err, fs |-> r.fs,
     outcome |-> IF r.err = "nil" THEN "extracted" ELSE "failed"]

\* os.Mkdir in extractTarFile: an existing directory is not an error
MkdirEntry(mk) ==
    IF mk.err # "nil" /\ ~IsExist(mk.err) THEN Extracted(mk)
    ELSE [err |-> "nil", fs |-> mk.fs, outcome |-> "extracted"]

\* the error extractTarFile makes for an entry of a type it does not handle
ErrUnhandledType == "Unhandled tar header type %d"

\* the operands that error is formatted with: the field of the header each
\* is taken from, and its value
UnhandledTypeOperands(header) == <<[field |-> "Typeflag", value |-> header.typeflag]>>

\* the switch of extractTarFile on the entry's type
ExtractType(f, filePath, header, data) ==
    CASE header.typeflag = "Dir" -> MkdirEntry(Mkdir(f, filePath))
      [] IsRegular(header.typeflag) -> Extracted(createFile(f, filePath, data))
      [] header.typeflag = "Symlink" ->
            Extracted(Symlink(f, header.linkname, filePath))
      [] OTHER -> [err |-> ErrUnhandledType, fs |-> f, outcome |-> "failed"]

\* extractTarFile once an existing file was removed with result rm
ExtractRemoved(f, filePath, header, data, rm) ==
    IF rm.err # "nil" THEN [err |-> rm.err, fs |-> f, outcome |-> "failed"]
    ELSE ExtractType(rm.fs, filePath, header, data)

\* f without the object at the absolute path a and all that is below it
WithoutTree(f, a) ==
    [q \in {r \in DOMAIN f : r # a /\ ~HasPrefix(r, a \o <<Sep>>)} |-> f[q]]

\* extractTarFile clearing whatever is at the path, a directory and what it
\* holds included, before it writes the entry
ExtractStatClearsPath(f, filePath, header, data, noOverride, st) ==
    IF st.err # "nil" /\ ~IsNotExist(st.err)
    THEN [err |-> st.err, fs |-> f, outcome |-> "failed"]
    ELSE IF st.err = "nil" /\ KeepExisting(noOverride) /\ ~IsDir(st.node)
    THEN [err |-> "nil", fs |-> f, outcome |-> "kept"]
    ELSE ExtractType(WithoutTree(f, Abs(filePath)), filePath, header, data)

\* extractTarFile once os.Lstat returned st
ExtractStat(f, filePath, header, data, noOverride, st) ==
    IF st.err # "nil" /\ ~IsNotExist(st.err)
    THEN [err |-> st.err, fs |-> f, outcome |-> "failed"]
    ELSE IF st.err = "nil" /\ ~IsDir(st.node)
    THEN IF KeepExisting(noOverride)
         THEN [err |-> "nil", fs |-> f, outcome |-> "kept"]
         ELSE ExtractRemoved(f, filePath, header, data, Remove(f, filePath))
    ELSE ExtractType(f, filePath, header, data)

\* extractTarFile(filePath, header, reader, noOverride): [err, fs, outcome]
extractTarFile(f, filePath, header, data, noOverride) ==
    ExtractStat(f, filePath, header, data, noOverride, Lstat(f, filePath))

DefaultUnTarOptions == [FlatDir |-> FALSE, Filters |-> <<>>, NoOverride |-> FALSE]

\* the name kept whole also when FlatDir is set
EntryPathKeepDirs(filePath, flatDir) == filePath

\* the path an entry is extracted to, before it is joined to the target
EntryPath(filePath, flatDir) == IF flatDir THEN Base(filePath) ELSE filePath

\* the filters ignored
UnTarSelectsAll(filePath, filters) == TRUE

\* whether the loop of UnTar passes an entry to extractTarFile
UnTarSelects(filePath, filters) == optimizedMatches(filePath, filters)

\* a record of the log: what became of one header
LogEntry(n, dest, outcome) ==
    [name |-> n.header.name, typeflag |-> n.header.typeflag, data |-> n.data,
     dest |-> dest, outcome |-> outcome]

\* the loop of UnTar from block index rpos: [err, fs, log]; log has one
\* record per header read: its name, destination and outcome
RECURSIVE UnTarLoop(_, _, _, _, _, _)
RECURSIVE UnTarNext(_, _, _, _, _, _)
RECURSIVE UnTarEntry(_, _, _, _, _, _, _)
RECURSIVE UnTarExtracted(_, _, _, _, _, _, _)
RECURSIVE UnTarLogged(_, _, _, _, _, _, _)
UnTarLoop(f, tf, rpos, targetDir, options, log) ==
    UnTarNext(f, tf, targetDir, options, log, TarNext(tf, rpos))

UnTarNext(f, tf, targetDir, options, log, n) ==
    IF n.err = "EOF" THEN [err |-> "nil", fs |-> f, log |-> log]
    ELSE IF n.err # "nil" THEN [err |-> n.err, fs |-> f, log |-> log]
    ELSE UnTarEntry(f, tf, targetDir, options, log, n, Clean(n.header.name))

UnTarEntry(f, tf, targetDir, options, log, n, filePath) ==
    IF ~UnTarSelects(filePath, prepareFilters(options.Filters))
    THEN UnTarLoop(f, tf, n.rpos, targetDir, options,
                   Append(log, LogEntry(n, <<>>, "filtered")))
    ELSE IF options.FlatDir /\ n.header.typeflag = "Dir"
    THEN UnTarLoop(f, tf, n.rpos, targetDir, options,
                   Append(log, LogEntry(n, <<>>, "flatskip")))
    ELSE UnTarExtracted(f, tf, targetDir, options, log, n,
                        Join(targetDir, EntryPath(filePath, options.FlatDir)))

UnTarExtracted(f, tf, targetDir, options, log, n, dest) ==
    UnTarLogged(tf, targetDir, options, log, n, dest,
                extractTarFile(f, dest, n.header, n.data, options.NoOverride))

UnTarLogged(tf, targetDir, options, log, n, dest, x) ==
    IF x.err # "nil"
    THEN [err |-> x.err, fs |-> x.fs, log |-> Append(log, LogEntry(n, dest, "failed"))]
    ELSE UnTarLoop(x.fs, tf, n.rpos, targetDir, options,
                   Append(log, LogEntry(n, dest, x.outcome)))

\* the deferred closeTarFile of UnTar, after the loop returned l
UnTarClose(o, l, c) ==
    [err |-> l.err, fs |-> l.fs, log |-> l.log, open |-> c.open,
     closed |-> c.closed, cursor |-> o.tf.cur, layers |-> Layers(o.tf)]

\* UnTar once os.MkdirAll returned md
UnTarMade(f, tf, targetDir, options, md) ==
    IF md.err # "nil" THEN [err |-> md.err, fs |-> f, log |-> <<>>]
    ELSE UnTarLoop(md.fs, tf, 0, targetDir, options, <<>>)

\* UnTar once openTarFile returned o
UnTarOpened(f, targetDir, options, o) ==
    IF o.err # "nil"
    THEN [err |-> o.err, fs |-> f, log |-> <<>>, open |-> o.open,
          closed |-> <<>>, cursor |-> o.tf.cur, layers |-> Layers(o.tf)]
    ELSE UnTarClose(o, UnTarMade(f, o.tf, targetDir, options, MkdirAll(f, targetDir)),
                    closeTarFile(o.tf, FALSE))

\* UnTar(name, targetDir, options): [err, fs, log, open]
UnTar(f, file0, targetDir, options) ==
    UnTarOpened(f, targetDir, options, openTarFile(file0, FALSE))

(***************************************************************************)
(* The zip codec: Zip, UnZip, extractZipFile                               *)
(***************************************************************************)
NoZipSession == [ZipReader |-> FALSE, ZipWriter |-> FALSE, file |-> NoFile,
                 stream |-> <<>>]

DefaultZipOptions == [Append |-> FALSE, IncludeSourceDir |-> FALSE, Filters |-> <<>>]

\* createZipFile(name): os.Create truncates the file
createZipFile(file0) ==
    [err |-> "nil",
     tf |-> [NoZipSession EXCEPT !.ZipWriter = TRUE, !.file = RawFile(<<>>)]]

\* closeZipFile(zf, remove): [err, file, open]; zip.Writer.Close leaves the
\* file that os.Create opened under it open
closeZipFile(zf, remove) ==
    [err |-> "nil",
     file |-> IF remove THEN NoFile
              ELSE IF zf.ZipWriter THEN ZipFile(zf.stream)
              ELSE zf.file,
     open |-> IF zf.ZipWriter THEN 1 ELSE 0]

\* the deferred closeZipFile of Zip, after the walk returned w
ZipClose(w, c) == [err |-> w.err, file |-> c.file, open |-> c.open]

ZipWalked(w) == ZipClose(w, closeZipFile(w.tf, w.err # "nil"))

\* Zip from path.Clean on, srcPath clean
ZipWalk(f, srcPath, srcIsDir, options, zf) ==
    ZipWalked(Walk([fs |-> f,
                    relPath |-> RelPathOf(srcPath, srcIsDir, options.IncludeSourceDir),
                    filters |-> prepareFilters(options.Filters),
                    zip |-> TRUE],
                   srcPath, zf))

\* Zip once the archive was created with result o
ZipCreated(f, srcPath, srcInfo, options, o) ==
    IF o.err # "nil" THEN [err |-> o.err, file |-> o.tf.file, open |-> 0]
    ELSE ZipWalk(f, Clean(srcPath), IsDir(srcInfo.node), options, o.tf)

\* Zip once os.Lstat(srcPath) returned srcInfo
ZipStatted(f, file0, srcPath, options, srcInfo) ==
    IF srcInfo.err # "nil" THEN [err |-> srcInfo.err, file |-> file0, open |-> 0]
    ELSE ZipCreated(f, srcPath, srcInfo, options, createZipFile(file0))

\* Zip(name, srcPath, options): [err, file, open]
Zip(f, file0, srcPath, options) ==
    ZipStatted(f, file0, srcPath, options, Lstat(f, srcPath))

\* openZipFile(name): [err, tf]
openZipFile(file0) ==
    IF file0.kind = "absent"
    THEN [err |-> "ENOENT", tf |-> [NoZipSession EXCEPT !.file = file0]]
    ELSE IF file0.kind # "zip"
    THEN [err |-> "ErrFormat", tf |-> [NoZipSession EXCEPT !.file = file0]]
    ELSE [err |-> "nil", tf |-> [NoZipSession EXCEPT !.ZipReader = TRUE,
                                                     !.file = file0]]

\* the result of extractZipFile for the result r of its last system call
ZipExtracted(r) ==
    [err |-> r.err, fs |-> r.fs,
     outcome |-> IF r.err = "nil" THEN "extracted" ELSE "failed"]

\* os.Mkdir in extractZipFile: an existing directory is not an error
ZipMkdirEntry(mk) ==
    IF mk.err # "nil" /\ ~IsExist(mk.err) THEN ZipExtracted(mk)
    ELSE [err |-> "nil", fs |-> mk.fs, outcome |-> "extracted"]

\* the branches of extractZipFile on the entry's mode
ZipExtractMode(f, filePath, file) ==
    IF file.kind = "dir" THEN ZipMkdirEntry(Mkdir(f, filePath))
    ELSE IF file.kind # "symlink"
    THEN ZipExtracted(createFile(f, filePath, file.data))
    ELSE [err |-> "nil", fs |-> f, outcome |-> "nothing"]

\* extractZipFile once an existing file was removed with result rm
ZipExtractRemoved(f, filePath, file, rm) ==
    IF rm.err # "nil" THEN [err |-> rm.err, fs |-> f, outcome |-> "failed"]
    ELSE ZipExtractMode(rm.fs, filePath, file)

\* extractZipFile once os.Lstat returned st
ZipExtractStat(f, filePath, file, noOverride, st) ==
    IF st.err # "nil" /\ ~IsNotExist(st.err)
    THEN [err |-> st.err, fs |-> f, outcome |-> "failed"]
    ELSE IF st.err = "nil" /\ ~IsDir(st.node)
    THEN IF noOverride THEN [err |-> "nil", fs |-> f, outcome |-> "kept"]
         ELSE ZipExtractRemoved(f, filePath, file, Remove(f, filePath))
    ELSE ZipExtractMode(f, filePath, file)

\* extractZipFile(filePath, file, noOverride): [err, fs, outcome]
extractZipFile(f, filePath, file, noOverride) ==
    ZipExtractStat(f, filePath, file, noOverride, Lstat(f, filePath))

\* a record of the log: what became of one file of the zip
ZipLogEntry(file, dest, outcome) ==
    [name |-> file.name, typeflag |-> file.kind, data |-> file.data,
     dest |-> dest, outcome |-> outcome]

\* the loop of UnZip over the files from index i: [err, fs, log]
RECURSIVE UnZipLoop(_, _, _, _, _, _)
RECURSIVE UnZipEntry(_, _, _, _, _, _, _)
RECURSIVE UnZipExtracted(_, _, _, _, _, _, _)
RECURSIVE UnZipLogged(_, _, _, _, _, _, _)
UnZipLoop(f, files, i, targetDir, options, log) ==
    IF i > Len(files) THEN [err |-> "nil", fs |-> f, log |-> log]
    ELSE UnZipEntry(f, files, i, targetDir, options, log, Clean(files[i].name))

UnZipEntry(f, files, i, targetDir, options, log, filePath) ==
    IF ~optimizedMatches(filePath, prepareFilters(options.Filters))
    THEN UnZipLoop(f, files, i + 1, targetDir, options,
                   Append(log, ZipLogEntry(files[i], <<>>, "filtered")))
    ELSE IF options.FlatDir /\ files[i].kind = "dir"
    THEN UnZipLoop(f, files, i + 1, targetDir, options,
                   Append(log, ZipLogEntry(files[i], <<>>, "flatskip")))
    ELSE UnZipExtracted(f, files, i, targetDir, options, log,
                        Join(targetDir, IF options.FlatDir THEN Base(filePath)
                                        ELSE filePath))

UnZipExtracted(f, files, i, targetDir, options, log, dest) ==
    UnZipLogged(files, i, targetDir, options, log, dest,
                extractZipFile(f, dest, files[i], options.NoOverride))

UnZipLogged(files, i, targetDir, options, log, dest, x) ==
    IF x.err # "nil"
    THEN [err |-> x.err, fs |-> x.fs,
          log |-> Append(log, ZipLogEntry(files[i], dest, "failed"))]
    ELSE UnZipLoop(x.fs, files, i + 1, targetDir, options,
                   Append(log, ZipLogEntry(files[i], dest, x.outcome)))

\* UnZip once os.MkdirAll returned md
UnZipMade(f, files, targetDir, options, md) ==
    IF md.err # "nil" THEN [err |-> md.err, fs |-> f, log |-> <<>>]
    ELSE UnZipLoop(md.fs, files, 1, targetDir, options, <<>>)

\* UnZip once openZipFile returned o
UnZipOpened(f, targetDir, options, o) ==
    IF o.err # "nil" THEN [err |-> o.err, fs |-> f, log |-> <<>>]
    ELSE UnZipMade(f, o.tf.file.zents, targetDir, options, MkdirAll(f, targetDir))

\* UnZip(name, targetDir, options): [err, fs, log]
UnZip(f, file0, targetDir, options) ==
    UnZipOpened(f, targetDir, options, openZipFile(file0))

\* IterZip(name): [err, tf]
IterZip(file0) == openZipFile(file0)

\* the result of ReadZip, which closes nothing on any of its paths:
\* [err, file, reader, data, open]
ReadZipReturn(err, file, reader) ==
    [err |-> err, file |-> file, reader |-> reader, data |-> file.data, open |-> 1]

NoZipEntry == [name |-> <<>>, kind |-> "none", data |-> <<>>]

\* the loop of ReadZip over the files from index i, name the clean fileName
RECURSIVE ReadZipLoop(_, _, _)
ReadZipLoop(files, name, i) ==
    IF i > Len(files) THEN ReadZipReturn(ErrNotExist, NoZipEntry, FALSE)
    ELSE IF name # Clean(files[i].name) THEN ReadZipLoop(files, name, i + 1)
    ELSE ReadZipReturn("nil", files[i], TRUE)

\* ReadZip once IterZip returned o
ReadZipIter(fileName, o) ==
    IF o.err # "nil"
    THEN [err |-> o.err, file |-> NoZipEntry, reader |-> FALSE, data |-> <<>>,
          open |-> 0]
    ELSE ReadZipLoop(o.tf.file.zents, Clean(fileName), 1)

\* ReadZip(name, fileName): [err, file, reader, data, open]
ReadZip(file0, fileName) == ReadZipIter(fileName, IterZip(file0))

\* ZipReader.Close: returns nil and closes nothing, so that the handles the
\* reader holds stay open
ZipReaderClose(reader) == [err |-> "nil", open |-> reader.open, closed |-> <<>>]

(***************************************************************************)
(* The world of the test suite: the fixture tree tests/input, two more     *)
(* source trees, the target directory and the archive names                *)
(***************************************************************************)
S_input == <<"i", "n", "p", "u", "t">>
S_in2 == <<"i", "n", "2">>
S_in3 == <<"i", "n", "3">>
S_in4 == <<"i", "n", "4">>
S_in5 == <<"i", "n", "5">>
S_out == <<"o", "u", "t">>
S_nosuch == <<"n", "o">>
S_a_txt == <<"a", ".", "t", "x", "t">>
S_b_txt == <<"b", ".", "t", "x", "t">>
S_c == <<"c">>
S_c1_txt == <<"c", "/", "c", "1", ".", "t", "x", "t">>
S_c2_txt == <<"c", "/", "c", "2", ".", "t", "x", "t">>
S_d == <<"d">>
S_input_a_txt == <<"i", "n", "p", "u", "t", "/", "a", ".", "t", "x", "t">>
S_input_c == <<"i", "n", "p", "u", "t", "/", "c">>
S_input_d == <<"i", "n", "p", "u", "t", "/", "d">>

\* the content of the fixture's files: the file's name and a newline
SourceFs ==
    ((<<"/">> :> DirNode)
     @@ (<<"/", "w">> :> DirNode)
     @@ (<<"/", "w", "/", "i", "n", "p", "u", "t">> :> DirNode)
     @@ (<<"/", "w", "/", "i", "n", "p", "u", "t", "/", "a", ".", "t", "x", "t">> :> FileNode(<<"a", ".", "t", "x", "t", "\n">>))
     @@ (<<"/", "w", "/", "i", "n", "p", "u", "t", "/", "b", ".", "t", "x", "t">> :> FileNode(<<"b", ".", "t", "x", "t", "\n">>))
     @@ (<<"/", "w", "/", "i", "n", "p", "u", "t", "/", "c">> :> DirNode)
     @@ (<<"/", "w", "/", "i", "n", "p", "u", "t", "/", "c", "/", "c", "1", ".", "t", "x", "t">> :> FileNode(<<"c", "1", ".", "t", "x", "t", "\n">>))
     @@ (<<"/", "w", "/", "i", "n", "p", "u", "t", "/", "c", "/", "c", "2", ".", "t", "x", "t">> :> FileNode(<<"c", "2", ".", "t", "x", "t", "\n">>))
     @@ (<<"/", "w", "/", "i", "n", "p", "u", "t", "/", "d">> :> DirNode)
     @@ (<<"/", "w", "/", "i", "n", "2">> :> DirNode)
     @@ (<<"/", "w", "/", "i", "n", "2", "/", "a", ".", "t", "x", "t">> :> FileNode(<<"2", "\n">>))
     @@ (<<"/", "w", "/", "i", "n", "2", "/", "k">> :> DirNode)
     @@ (<<"/", "w", "/", "i", "n", "2", "/", "k", "/", "a", ".", "t", "x", "t">> :> FileNode(<<"k", "\n">>))
     @@ (<<"/", "w", "/", "i", "n", "2", "/", "s">> :> LinkNode(<<"a", ".", "t", "x", "t">>))
     @@ (<<"/", "w", "/", "i", "n", "3">> :> DirNode)
     @@ (<<"/", "w", "/", "i", "n", "3", "/", "B", "Z", "h">> :> FileNode(<<"h", "\n">>))
     @@ (<<"/", "w", "/", "i", "n", "4">> :> DirNode)
     @@ (<<"/", "w", "/", "i", "n", "4", "/", "x">> :> LockedNode(<<"x", "\n">>))
     @@ (<<"/", "w", "/", "i", "n", "5">> :> DirNode)
     @@ (<<"/", "w", "/", "i", "n", "5", "/", "e">> :> LockedNode(<<>>)))

\* what TestUnTarWithOverride puts in the target before it extracts
TargetFs ==
    ((<<"/", "w", "/", "o", "u", "t">> :> DirNode)
     @@ (<<"/", "w", "/", "o", "u", "t", "/", "a", ".", "t", "x", "t">> :> FileNode(<<"n", "e", "w", " ", "a", ".", "t", "x", "t">>))
     @@ (<<"/", "w", "/", "o", "u", "t", "/", "c">> :> DirNode)
     @@ (<<"/", "w", "/", "o", "u", "t", "/", "c", "/", "z", ".", "t", "x", "t">> :> FileNode(<<"z", ".", "t", "x", "t">>)))

\* a target where a file is in the place of the directory c
BlockedFs ==
    ((<<"/", "w", "/", "o", "u", "t">> :> DirNode)
     @@ (<<"/", "w", "/", "o", "u", "t", "/", "c">> :> FileNode(<<"c">>)))

\* the source trees without the two that hold a file that cannot be opened
ReadableFs ==
    [p \in {q \in DOMAIN SourceFs :
               /\ ~HasPrefix(q, Cwd \o <<Sep>> \o S_in4)
               /\ ~HasPrefix(q, Cwd \o <<Sep>> \o S_in5)} |-> SourceFs[p]]

TargetInits == {SourceFs, TargetFs @@ SourceFs, BlockedFs @@ SourceFs, ReadableFs}

TarName == "test.tar"
ZipName == "test.zip"

SrcPaths ==
    {S_input, S_input_a_txt, S_input_c, S_input_d, S_in2, S_in3, S_in4, S_in5,
     S_nosuch}

\* sources named through the working directory and its parent
S_c_up == S_input_c \o <<Sep>> \o DotDot

ParentSrcPaths == {Dot, DotDot, S_c_up}

FilterLists == {<<>>, <<S_a_txt, S_c2_txt>>, <<S_c2_txt>>}

TarOptionSets ==
    {DefaultTarOptions}
    \cup {[DefaultTarOptions EXCEPT !.Append = TRUE]}
    \cup {[DefaultTarOptions EXCEPT !.Compression = c] : c \in {"Gzip", "Bzip2"}}
    \cup {[DefaultTarOptions EXCEPT !.IncludeSourceDir = TRUE]}
    \cup {[DefaultTarOptions EXCEPT !.Filters = fl] : fl \in FilterLists}

UnTarOptionSets ==
    [FlatDir : BOOLEAN, Filters : FilterLists, NoOverride : BOOLEAN]

ZipOptionSets ==
    {DefaultZipOptions}
    \cup {[DefaultZipOptions EXCEPT !.Append = TRUE]}
    \cup {[DefaultZipOptions EXCEPT !.IncludeSourceDir = TRUE]}
    \cup {[DefaultZipOptions EXCEPT !.Filters = fl] : fl \in FilterLists}

\* archives found on disk at the start: written by earlier runs of Tar and
\* Zip over the source trees, or compressed by bzip2 afterwards
InitTarCases ==
    {<<src, DefaultTarOptions>> : src \in SrcPaths \ {S_nosuch}}
    \cup {<<S_input, [DefaultTarOptions EXCEPT !.Compression = "Gzip"]>>}

MadeTars == {Tar(SourceFs, NoFile, c[1], c[2]).file : c \in InitTarCases}

MadeZips ==
    {Zip(SourceFs, NoFile, src, DefaultZipOptions).file : src \in {S_input, S_in2}}

Bzip2Of(tars) == {Bzip2File(t.blocks) : t \in {u \in tars : u.kind = "raw"}}

InitTars(made) == {NoFile} \cup made \cup Bzip2Of(made)

\* a file of no bytes under the archive's name
EmptyTar == RawFile(<<>>)

\* an archive not made by Tar: an entry with an absolute name and one with a
\* name that leads out of the directory it is extracted to
EscapingTar ==
    RawFile(<<HeaderBlock([name |-> S_a_txt, typeflag |-> "Reg", size |-> 2,
                           linkname |-> <<>>]),
              DataBlock(<<"a", "\n">>),
              HeaderBlock([name |-> <<Sep>> \o S_b_txt, typeflag |-> "Reg",
                           size |-> 2, linkname |-> <<>>]),
              DataBlock(<<"b", "\n">>),
              HeaderBlock([name |-> <<".", ".", Sep, "x">>, typeflag |-> "Reg",
                           size |-> 2, linkname |-> <<>>]),
              DataBlock(<<"x", "\n">>),
              ZeroBlock, ZeroBlock>>)

\* an archive not made by Tar: a named pipe between two regular files
FifoTar ==
    RawFile(<<HeaderBlock([name |-> S_a_txt, typeflag |-> "Reg", size |-> 2,
                           linkname |-> <<>>]),
              DataBlock(<<"a", "\n">>),
              HeaderBlock([name |-> <<"p">>, typeflag |-> "Fifo", size |-> 0,
                           linkname |-> <<>>]),
              HeaderBlock([name |-> S_b_txt, typeflag |-> "Reg", size |-> 2,
                           linkname |-> <<>>]),
              DataBlock(<<"b", "\n">>),
              ZeroBlock, ZeroBlock>>)

\* an archive as other tools write it: the two zero blocks that end it are
\* followed by more zero blocks, up to the record size
PaddedTar ==
    RawFile(<<HeaderBlock([name |-> S_a_txt, typeflag |-> "Reg", size |-> 2,
                           linkname |-> <<>>]),
              DataBlock(<<"a", "\n">>),
              ZeroBlock, ZeroBlock, ZeroBlock, ZeroBlock>>)

\* an archive that has one name twice, as an append of a file that is in
\* the archive already leaves it, the later entry with a new content
RepeatedTar ==
    RawFile(<<HeaderBlock([name |-> S_a_txt, typeflag |-> "Reg", size |-> 2,
                           linkname |-> <<>>]),
              DataBlock(<<"a", "\n">>),
              HeaderBlock([name |-> S_b_txt, typeflag |-> "Reg", size |-> 2,
                           linkname |-> <<>>]),
              DataBlock(<<"b", "\n">>),
              HeaderBlock([name |-> <<".", Sep>> \o S_a_txt, typeflag |-> "Reg",
                           size |-> 2, linkname |-> <<>>]),
              DataBlock(<<"2", "\n">>),
              ZeroBlock, ZeroBlock>>)

\* archives not made by Tar whose one entry c is a regular file, or a
\* symbolic link, where the fixture tree has a directory
FileAtDirTar ==
    RawFile(<<HeaderBlock([name |-> S_c, typeflag |-> "Reg", size |-> 2,
                           linkname |-> <<>>]),
              DataBlock(<<"c", "\n">>),
              ZeroBlock, ZeroBlock>>)

LinkAtDirTar ==
    RawFile(<<HeaderBlock([name |-> S_c, typeflag |-> "Symlink", size |-> 0,
                           linkname |-> S_a_txt]),
              ZeroBlock, ZeroBlock>>)

\* the same as a zip file: the entry c as a symbolic link, then as a file
AtDirZip ==
    ZipFile(<<[name |-> S_c, kind |-> "symlink", data |-> <<"a", "\n">>],
              [name |-> S_c, kind |-> "file", data |-> <<"c", "\n">>]>>)

ForeignTars ==
    {EmptyTar, EscapingTar, FifoTar, PaddedTar, RepeatedTar, FileAtDirTar,
     LinkAtDirTar}

ArchiveInits ==
    {<<t, NoFile>> : t \in InitTars(MadeTars) \cup ForeignTars}
    \cup {<<NoFile, z>> : z \in MadeZips \cup {AtDirZip}}

\* the names ReadTar and ReadZip are asked for
ReadNames ==
    {S_a_txt, <<".", Sep>> \o S_a_txt, S_c, S_c \o <<Sep>>, S_c2_txt,
     <<"B", "Z", "h">>, <<"s">>, S_nosuch, <<>>}

(***************************************************************************)
(* The package as a machine: one call of an exported function per step     *)
(***************************************************************************)
MaxOps == 1

\* no reader in the caller's hands
NoReader == [kind |-> "none", tf |-> NoSession, data |-> <<>>, open |-> 0]

\* what the process holds when no call was made yet
NoHandles ==
    [open |-> 0, closed |-> <<>>, cursor |-> 0, args |-> <<>>, reader |-> NoReader,
     layers |-> Layers(NoSession)]

Init ==
    /\ fs \in TargetInits
    /\ \E a \in ArchiveInits : arch = (TarName :> a[1]) @@ (ZipName :> a[2])
    /\ last = Idle
    /\ ops = 0
    /\ sess = NoHandles

\* what last keeps of a call: its arguments, its error and the state it
\* was made in
Called(op, src, options, err, log, headers) ==
    [op |-> op, src |-> src, options |-> options, err |-> err,
     prefs |-> fs, prearch |-> arch, log |-> log, headers |-> headers]

\* what sess keeps of a call: the file handles on archives the process has
\* open once the call returned, the layers of its session the call closed, in
\* order, the file offset its reader was built at, the operands formatted
\* into its error, the reader handed to the caller
Held(open, closed, cursor, args, reader) ==
    [open |-> sess.open + open, closed |-> closed, cursor |-> cursor,
     args |-> args, reader |-> reader, layers |-> Layers(NoSession)]

\* the same, of a call that ran a tar session with these streams
HeldBy(layers, held) == [held EXCEPT !.layers = layers]

TarReturns(srcPath, options, r) ==
    /\ arch' = [arch EXCEPT ![TarName] = r.file]
    /\ last' = Called("Tar", srcPath, options, r.err, <<>>, <<>>)
    /\ sess' = HeldBy(r.layers, Held(r.open, r.closed, 0, <<>>, NoReader))

TarStep ==
    /\ ops < MaxOps
    /\ \E srcPath \in SrcPaths \cup ParentSrcPaths, options \in TarOptionSets :
         TarReturns(srcPath, options, Tar(fs, arch[TarName], srcPath, options))
    /\ ops' = ops + 1
    /\ UNCHANGED fs

ListTarReturns(r) ==
    /\ last' = Called("ListTar", <<>>, <<>>, r.err, <<>>, r.headers)
    /\ sess' = HeldBy(r.layers, Held(r.open, r.closed, r.cursor, <<>>, NoReader))

ListTarStep ==
    /\ ops < MaxOps
    /\ ListTarReturns(ListTar(arch[TarName]))
    /\ ops' = ops + 1
    /\ UNCHANGED <<fs, arch>>

UnTarReturns(options, r) ==
    /\ fs' = r.fs
    /\ last' = Called("UnTar", <<>>, options, r.err, r.log, <<>>)
    /\ sess' = HeldBy(r.layers,
                      Held(r.open, r.closed, r.cursor,
                           IF r.err = ErrUnhandledType
                           THEN UnhandledTypeOperands(r.log[Len(r.log)]) ELSE <<>>,
                           NoReader))

UnTarStep ==
    /\ ops < MaxOps
    /\ \E options \in UnTarOptionSets :
         UnTarReturns(options, UnTar(fs, arch[TarName], S_out, options))
    /\ ops' = ops + 1
    /\ UNCHANGED arch

ZipReturns(srcPath, options, r) ==
    /\ arch' = [arch EXCEPT ![ZipName] = r.file]
    /\ last' = Called("Zip", srcPath, options, r.err, <<>>, <<>>)
    /\ sess' = Held(r.open, <<>>, 0, <<>>, NoReader)

ZipStep ==
    /\ ops < MaxOps
    /\ \E srcPath \in SrcPaths, options \in ZipOptionSets :
         ZipReturns(srcPath, options, Zip(fs, arch[ZipName], srcPath, options))
    /\ ops' = ops + 1
    /\ UNCHANGED fs

UnZipReturns(options, r) ==
    /\ fs' = r.fs
    /\ last' = Called("UnZip", <<>>, options, r.err, r.log, <<>>)
    /\ sess' = Held(0, <<>>, 0, <<>>, NoReader)

UnZipStep ==
    /\ ops < MaxOps
    /\ \E options \in UnTarOptionSets :
         UnZipReturns(options, UnZip(fs, arch[ZipName], S_out, options))
    /\ ops' = ops + 1
    /\ UNCHANGED arch

ReadTarReturns(fileName, r) ==
    /\ last' = Called("ReadTar", fileName, <<>>, r.err, <<>>, <<r.header>>)
    /\ sess' = HeldBy(Layers(r.tf),
                      Held(r.open, r.closed, r.cursor, <<>>,
                           IF r.reader
                           THEN [kind |-> "tar", tf |-> r.tf, data |-> r.data,
                                 open |-> r.open]
                           ELSE NoReader))

ReadTarStep ==
    /\ ops < MaxOps
    /\ \E fileName \in ReadNames :
         ReadTarReturns(fileName, ReadTar(arch[TarName], fileName))
    /\ ops' = ops + 1
    /\ UNCHANGED <<fs, arch>>

ReadZipReturns(fileName, r) ==
    /\ last' = Called("ReadZip", fileName, <<>>, r.err, <<>>, <<r.file>>)
    /\ sess' = Held(r.open, <<>>, 0, <<>>,
                    IF r.reader
                    THEN [kind |-> "zip", tf |-> NoSession, data |-> r.data,
                          open |-> r.open]
                    ELSE NoReader)

ReadZipStep ==
    /\ ops < MaxOps
    /\ \E fileName \in ReadNames :
         ReadZipReturns(fileName, ReadZip(arch[ZipName], fileName))
    /\ ops' = ops + 1
    /\ UNCHANGED <<fs, arch>>

\* the caller closes the reader it was handed
ReaderCloses(op, reader, c) ==
    /\ last' = Called(op, last.src, <<>>, c.err, <<>>, last.headers)
    /\ sess' = [sess EXCEPT !.open = sess.open - reader.open + c.open,
                            !.closed = c.closed,
                            !.reader = NoReader]

TarReaderCloseStep ==
    /\ sess.reader.kind = "tar"
    /\ ReaderCloses("TarReader.Close", sess.reader, TarReaderClose(sess.reader.tf))
    /\ UNCHANGED <<fs, arch, ops>>

ZipReaderCloseStep ==
    /\ sess.reader.kind = "zip"
    /\ ReaderCloses("ZipReader.Close", sess.reader, ZipReaderClose(sess.reader))
    /\ UNCHANGED <<fs, arch, ops>>

Next ==
    \/ TarStep \/ ListTarStep \/ UnTarStep \/ ZipStep \/ UnZipStep
    \/ ReadTarStep \/ ReadZipStep \/ TarReaderCloseStep \/ ZipReaderCloseStep

Spec == Init /\ [][Next]_vars

(***************************************************************************)
(* The matcher as a machine of its own: one call per step                  *)
(***************************************************************************)
MaxStrLen == 3
MaxFilters == 2

MatchAlphabet == {"a", Sep}

StringsUpTo(n) == UNION {[1..k -> MatchAlphabet] : k \in 0..n}

ListsUpTo(S, n) == UNION {[1..k -> S] : k \in 0..n}

InitMatch ==
    /\ fs = <<>>
    /\ arch = <<>>
    /\ ops = 0
    /\ sess = <<>>
    /\ \E path \in StringsUpTo(MaxStrLen) :
         \E filters \in ListsUpTo(StringsUpTo(MaxStrLen), MaxFilters) :
           last = [op |-> "input", path |-> path, filters |-> filters,
                   result |-> FALSE]

Match ==
    /\ last.op = "input"
    /\ last' = [last EXCEPT !.op = "matches",
                 !.result = optimizedMatches(last.path, prepareFilters(last.filters))]
    /\ UNCHANGED <<fs, arch, ops, sess>>

NextMatch == Match

SpecMatch == InitMatch /\ [][NextMatch]_vars

(***************************************************************************)
(* detectCompression as a machine of its own: one call per step, on a file *)
(* given by its bytes                                                      *)
(***************************************************************************)
MaxFileLen == 4

\* the bytes of the two magic numbers, and two others
ByteValues == {31, 139, 8, 66, 90, 104, 0, 65}

FilesUpTo(n) == UNION {[1..k -> ByteValues] : k \in 0..n}

\* file.Read(source) at offset 0 of a file with the bytes content: what the
\* buffer of 4 zero bytes holds afterwards, <<>> when the read fails at the
\* end of the file
FileRead(content) ==
    IF Len(content) = 0 THEN <<>>
    ELSE [i \in 1..4 |-> IF i <= Len(content) THEN content[i] ELSE 0]

InitDetect ==
    /\ fs = <<>>
    /\ arch = <<>>
    /\ ops = 0
    /\ sess = <<>>
    /\ \E content \in FilesUpTo(MaxFileLen) :
         last = [op |-> "file", content |-> content,
                 result |-> [err |-> "nil", compression |-> "Uncompressed",
                             offset |-> 0]]

Detect ==
    /\ last.op = "file"
    /\ last' = [last EXCEPT !.op = "detected",
                            !.result = DetectRead(FileRead(last.content))]
    /\ UNCHANGED <<fs, arch, ops, sess>>

NextDetect == Detect

SpecDetect == InitDetect /\ [][NextDetect]_vars

(***************************************************************************)
(* The TarFile type: OpenTarFile and Extract                               *)
(***************************************************************************)
\* detectCompression of the TarFile type: the one magic number is Gzip's
DetectGzip(source) ==
    IF SubSeq(source, 1, 3) = GzipMagic THEN "Gzip" ELSE "Uncompressed"

\* OpenTarFile once detectCompression found the compression c: initReader
\* builds the readers and takes the file offset as the start position
OpenTarFileDetected(file0, c) ==
    [err |-> "nil",
     tf |-> [NoSession EXCEPT
               !.file = file0,
               !.File = "open",
               !.TarReader = TRUE,
               !.CompressReader = (c = "Gzip"),
               !.comp = c,
               !.cur = 0],
     open |-> 1]

\* OpenTarFile(name): [err, tf, open]
OpenTarFile(file0) ==
    IF file0.kind = "absent"
    THEN [err |-> "ENOENT", tf |-> NoSession, open |-> 0]
    ELSE IF Len(LeadingBytes(file0)) = 0
    THEN [err |-> "EOF", tf |-> [NoSession EXCEPT !.file = file0], open |-> 1]
    ELSE OpenTarFileDetected(file0, DetectGzip(LeadingBytes(file0)))

\* the error Extract makes for an entry that is neither a directory nor a
\* regular file
ErrNotSupportedType == "Not supported type : %c in file %s"

\* the test of Extract on the entry's name, once filepath.Rel returned r
RelEscapes(r) == r.err # "nil" \/ HasPrefix(r.path, DotDot)

\* whether Extract passes over the entry named headerName
ExtractSkips(name, headerName) == RelEscapes(Rel(name, headerName))

\* os.Create(name) where a symbolic link is: the file the link names is
\* opened
CreateThrough(f, a, data) ==
    createFileAbs(f, Clean(Join(Dir(a), f[a].link)), data)

\* os.Create and io.Copy at the absolute path a: [err, fs]
CreateAbs(f, a, data) ==
    IF a \in DOMAIN f /\ f[a].kind = "symlink" THEN CreateThrough(f, a, data)
    ELSE createFileAbs(f, a, data)

\* what became of one entry: ret says whether Extract returned, err what it
\* returned, cause the error of the system call that failed
Materialized(ret, err, cause, f) ==
    [ret |-> ret, err |-> err, cause |-> cause, fs |-> f,
     outcome |-> IF cause = "nil" THEN "extracted" ELSE "failed"]

\* the case tar.TypeDir once os.MkdirAll returned md
ExtractDir(f, md) ==
    IF md.err # "nil" THEN Materialized(TRUE, "nil", md.err, f)
    ELSE Materialized(FALSE, "nil", "nil", md.fs)

\* the case tar.TypeReg once os.Create and io.Copy returned cr
ExtractCreated(f, cr) ==
    IF cr.err # "nil" THEN Materialized(TRUE, cr.err, cr.err, f)
    ELSE Materialized(FALSE, "nil", "nil", cr.fs)

\* the case tar.TypeReg once os.MkdirAll of the parent returned md
ExtractReg(f, filename, data, md) ==
    IF md.err # "nil" THEN Materialized(TRUE, md.err, md.err, f)
    ELSE ExtractCreated(md.fs, CreateAbs(md.fs, Abs(filename), data))

\* the switch of Extract on the entry's type
ExtractSwitch(f, filename, header, data) ==
    CASE header.typeflag = "Dir" -> ExtractDir(f, MkdirAll(f, filename))
      [] header.typeflag = "Reg" ->
            ExtractReg(f, filename, data, MkdirAll(f, Dir(filename)))
      [] OTHER -> Materialized(TRUE, ErrNotSupportedType, ErrNotSupportedType, f)

\* a record of the log of Extract: what became of one header
ExtractLog(n, dest, outcome, cause) ==
    [name |-> n.header.name, typeflag |-> n.header.typeflag, data |-> n.data,
     dest |-> dest, outcome |-> outcome, cause |-> cause]

\* the loop of Extract from block index rpos: [err, fs, log]
RECURSIVE ExtractLoop(_, _, _, _, _, _)
RECURSIVE ExtractNext(_, _, _, _, _, _)
RECURSIVE ExtractLogged(_, _, _, _, _, _, _)
ExtractLoop(f, tf, rpos, name, targetDir, log) ==
    ExtractNext(f, tf, name, targetDir, log, TarNext(tf, rpos))

ExtractNext(f, tf, name, targetDir, log, n) ==
    IF n.err = "EOF" THEN [err |-> "nil", fs |-> f, log |-> log]
    ELSE IF n.err # "nil" THEN [err |-> n.err, fs |-> f, log |-> log]
    ELSE IF ExtractSkips(name, n.header.name)
    THEN ExtractLoop(f, tf, n.rpos, name, targetDir,
                     Append(log, ExtractLog(n, <<>>, "skipped", "nil")))
    ELSE ExtractLogged(tf, name, targetDir, log, n,
                       Join(targetDir, n.header.name),
                       ExtractSwitch(f, Join(targetDir, n.header.name),
                                     n.header, n.data))

ExtractLogged(tf, name, targetDir, log, n, dest, x) ==
    IF x.ret
    THEN [err |-> x.err, fs |-> x.fs,
          log |-> Append(log, ExtractLog(n, dest, x.outcome, x.cause))]
    ELSE ExtractLoop(x.fs, tf, n.rpos, name, targetDir,
                     Append(log, ExtractLog(n, dest, x.outcome, x.cause)))

ErrNotOpenedForReading == "File was not opened for reading"

\* TarFile.Extract(name, targetDir) on a TarFile no entry was read from:
\* [err, fs, log]
Extract(f, tf, name, targetDir) ==
    IF ~tf.TarReader THEN [err |-> ErrNotOpenedForReading, fs |-> f, log |-> <<>>]
    ELSE ExtractLoop(f, tf, 0, name, targetDir, <<>>)

(***************************************************************************)
(* The TarFile type as a machine: OpenTarFile, then one Extract on the     *)
(* TarFile it returned                                                     *)
(***************************************************************************)
S_dotted == <<".", ".", "a">>

\* an archive not made by Tar: a name that begins with two dots
DottedTar ==
    RawFile(<<HeaderBlock([name |-> S_dotted, typeflag |-> "Reg", size |-> 2,
                           linkname |-> <<>>]),
              DataBlock(<<"a", "\n">>),
              HeaderBlock([name |-> S_a_txt, typeflag |-> "Reg", size |-> 2,
                           linkname |-> <<>>]),
              DataBlock(<<"a", "\n">>),
              ZeroBlock, ZeroBlock>>)

ExtractTars == InitTars(MadeTars) \cup ForeignTars \cup {DottedTar}

\* the archive paths Extract is asked for
ExtractNames == {<<>>, Dot, S_c, S_c2_txt, S_a_txt, DotDot, <<Sep>>, S_nosuch}

InitExtract ==
    /\ fs \in TargetInits
    /\ \E t \in ExtractTars : arch = (TarName :> t) @@ (ZipName :> NoFile)
    /\ last = Idle
    /\ ops = 0
    /\ sess = NoHandles

\* the TarFile in the caller's hands
TarFileHeld(o) ==
    [kind |-> IF o.err = "nil" THEN "TarFile" ELSE "none", tf |-> o.tf,
     data |-> <<>>, open |-> o.open]

OpenTarFileReturns(o) ==
    /\ last' = Called("OpenTarFile", <<>>, <<>>, o.err, <<>>, <<>>)
    /\ sess' = HeldBy(Layers(o.tf), Held(o.open, <<>>, 0, <<>>, TarFileHeld(o)))

OpenTarFileStep ==
    /\ last = Idle
    /\ OpenTarFileReturns(OpenTarFile(arch[TarName]))
    /\ UNCHANGED <<fs, arch, ops>>

ExtractReturns(name, targetDir, r) ==
    /\ fs' = r.fs
    /\ last' = Called("Extract", name, [targetDir |-> targetDir], r.err, r.log, <<>>)

ExtractStep ==
    /\ last.op = "OpenTarFile"
    /\ sess.reader.kind = "TarFile"
    /\ ops < MaxOps
    /\ \E name \in ExtractNames :
         ExtractReturns(name, S_out, Extract(fs, sess.reader.tf, name, S_out))
    /\ ops' = ops + 1
    /\ UNCHANGED <<arch, sess>>

NextExtract == OpenTarFileStep \/ ExtractStep

SpecExtract == InitExtract /\ [][NextExtract]_vars

(***************************************************************************)
(* The older Tar of the package: newTarFile ahead of os.Stat, the walk     *)
(* function inline, tarFile.Close deferred                                 *)
(***************************************************************************)
\* newTarFile(name, options): os.Create truncates the file: [err, tf, open]
newTarFile(file0, options) ==
    [err |-> "nil",
     tf |-> [NoSession EXCEPT !.File = "open", !.TarWriter = TRUE,
                              !.CompressWriter = (options.Compression = "Gzip"),
                              !.file = RawFile(<<>>)],
     open |-> 1]

\* tarFile.Close of the older Tar once the tar writer was closed with result
\* w: the compression writer's Close is returned and the file stays open
TarFileClosed(tf, w) ==
    IF w.err # "nil" THEN [err |-> w.err, file |-> Unflushed(tf), open |-> 1]
    ELSE IF tf.CompressWriter
    THEN [err |-> "nil", file |-> Flushed(w.tf), open |-> 1]
    ELSE [err |-> "nil", file |-> w.tf.file, open |-> 0]

\* tarFile.Close(): [err, file, open]
TarFileClose(tf) == TarFileClosed(tf, TarWriterClose(tf))

\* os.Stat: a symbolic link is followed
Stat(f, p) == Lstat(f, OpenTarget(p, Lstat(f, p).node))

\* tar.FileInfoHeader(info, info.Name()) with header.Name set to name
FileInfoHeaderNamed(node, filePath, name) ==
    [name |-> name, typeflag |-> TypeflagOf(node),
     size |-> IF node.kind = "file" THEN Len(node.data) ELSE 0,
     linkname |-> IF node.kind = "symlink" THEN Base(filePath) ELSE <<>>]

\* io.Copy(tarFile.TarWriter, file) for an entry of size bytes
CopyOpened(tf1, size, opened) ==
    IF opened.err # "nil" THEN [err |-> opened.err, tf |-> tf1]
    ELSE IF ~opened.node.readable THEN [err |-> "EACCES", tf |-> tf1]
    ELSE IF IsDir(opened.node) THEN [err |-> "EISDIR", tf |-> tf1]
    ELSE IF Len(opened.node.data) > size THEN [err |-> "ErrWriteTooLong", tf |-> tf1]
    ELSE [err |-> "nil", tf |-> CopyData(tf1, opened.node.data)]

\* the inline walk function once the header was written
InlineContent(ctx, filePath, node, header, tf1) ==
    IF IsDir(node) THEN [err |-> "nil", tf |-> tf1]
    ELSE CopyOpened(tf1, header.size, Lstat(ctx.fs, OpenTarget(filePath, node)))

\* the inline walk function once filepath.Rel returned rel
InlineRel(ctx, filePath, node, st, rel) ==
    IF rel.err # "nil" THEN [st EXCEPT !.err = rel.err]
    ELSE IF rel.path = Dot THEN st
    ELSE InlineContent(ctx, filePath, node,
                       FileInfoHeaderNamed(node, filePath, rel.path),
                       WriteHeader(st.tf, FileInfoHeaderNamed(node, filePath, rel.path)))

\* the function the older Tar hands to filepath.Walk; ctx = [fs, baseDir]
InlineFn(ctx, filePath, st) ==
    InlineRel(ctx, filePath, ctx.fs[Abs(filePath)], st, Rel(ctx.baseDir, filePath))

\* filepath.Walk with the inline function
RECURSIVE InlineNode(_, _, _)
RECURSIVE InlineDir(_, _, _, _)
RECURSIVE InlineNames(_, _, _, _)
RECURSIVE InlineRest(_, _, _, _)
InlineNode(ctx, path, st) == InlineDir(ctx, path, Abs(path), InlineFn(ctx, path, st))

InlineDir(ctx, path, a, st1) ==
    IF st1.err # "nil" THEN st1
    ELSE IF ~IsDir(ctx.fs[a]) THEN st1
    ELSE IF ~ctx.fs[a].readable THEN [st1 EXCEPT !.err = "EACCES"]
    ELSE InlineNames(ctx, path, SortNames(ChildNames(ctx.fs, a)), st1)

InlineNames(ctx, path, names, st) ==
    IF Len(names) = 0 THEN st
    ELSE InlineRest(ctx, path, names, InlineNode(ctx, Join(path, names[1]), st))

InlineRest(ctx, path, names, r) ==
    IF r.err # "nil" THEN r ELSE InlineNames(ctx, path, Tail(names), r)

\* the older Tar when it returns err: the deferred Close has run with
\* result c
OlderTarClosed(err, c) == [err |-> err, file |-> c.file, open |-> c.open]

OlderTarWalked(w) == OlderTarClosed(w.err, TarFileClose(w.tf))

\* the older Tar from path.Clean on, srcPath clean
OlderTarWalk(f, srcPath, srcIsDir, options, tf) ==
    OlderTarWalked(InlineNode([fs |-> f,
                               baseDir |-> RelPathOf(srcPath, srcIsDir,
                                                     options.IncludeSourceDir)],
                              srcPath, [err |-> "nil", tf |-> tf]))

\* the older Tar once os.Stat(srcPath) returned fileInfo, the archive made
OlderTarStat(f, srcPath, options, tf, fileInfo) ==
    IF fileInfo.err # "nil" THEN OlderTarClosed(fileInfo.err, TarFileClose(tf))
    ELSE OlderTarWalk(f, Clean(srcPath), IsDir(fileInfo.node), options, tf)

\* the older Tar once newTarFile returned o
OlderTarMade(f, file0, srcPath, options, o) ==
    IF o.err # "nil" THEN [err |-> o.err, file |-> file0, open |-> 0]
    ELSE OlderTarStat(f, srcPath, options, o.tf, Stat(f, srcPath))

\* the older Tar(name, srcPath, options): [err, file, open]
OlderTar(f, file0, srcPath, options) ==
    OlderTarMade(f, file0, srcPath, options, newTarFile(file0, options))

(***************************************************************************)
(* The older Tar as a machine: one call per step                           *)
(***************************************************************************)
OlderTarOptionSets == [Compression : {"Uncompressed", "Gzip"}, IncludeSourceDir : BOOLEAN]

OlderTarReturns(srcPath, options, r) ==
    /\ arch' = [arch EXCEPT ![TarName] = r.file]
    /\ last' = Called("Tar", srcPath, options, r.err, <<>>, <<>>)
    /\ sess' = Held(r.open, <<>>, 0, <<>>, NoReader)

OlderTarStep ==
    /\ ops < MaxOps
    /\ \E srcPath \in SrcPaths, options \in OlderTarOptionSets :
         OlderTarReturns(srcPath, options,
                         OlderTar(fs, arch[TarName], srcPath, options))
    /\ ops' = ops + 1
    /\ UNCHANGED fs

NextOlderTar == OlderTarStep

SpecOlderTar == Init /\ [][NextOlderTar]_vars

(***************************************************************************)
(* Properties of the matcher                                               *)
(***************************************************************************)
\* the number of separator-delimited segments of a string
NumSegments(s) == Cardinality({i \in 1..Len(s) : s[i] = Sep}) + 1

\* the positions of the characters of the j-th segment of s: those that are
\* no separator and have j - 1 separators before them
SegmentPositions(s, j) ==
    {i \in 1..Len(s) :
        s[i] # Sep /\ Cardinality({k \in 1..i : s[k] = Sep}) = j - 1}

\* the j-th segment of s
SegmentAt(s, j) ==
    [n \in 1..Cardinality(SegmentPositions(s, j)) |->
        s[CHOOSE i \in SegmentPositions(s, j) :
            Cardinality({k \in SegmentPositions(s, j) : k < i}) = n - 1]]

\* the filter equals the path segment by segment on the positions both have
AgreeOnCommonPrefix(path, filter) ==
    \A j \in 1..min(NumSegments(path), NumSegments(filter)) :
        SegmentAt(path, j) = SegmentAt(filter, j)

\* C1: optimizedMatches(path, prepareFilters(filters)) is true exactly when
\* there is no filter, or some filter equals the path segment by segment on
\* the first min(len(path segments), len(filter segments)) positions
C1_MatchesIffPrefixEqual ==
    last.op = "matches" =>
        (last.result <=>
            \/ Len(last.filters) = 0
            \/ \E k \in 1..Len(last.filters) :
                   AgreeOnCommonPrefix(last.path, last.filters[k]))

\* a path matched by a filter that names a descendant of it, and by no
\* filter whose segment it is only a prefix of
C1_Witness ==
    /\ last.op = "matches"
    /\ last.path = <<"a">>
    /\ last.filters = << <<"a", "a">>, <<"a", Sep, "a">> >>
    /\ last.result
    /\ ~AgreeOnCommonPrefix(last.path, last.filters[1])

(***************************************************************************)
(* Properties of extraction                                                *)
(***************************************************************************)
\* the absolute path of the relative path rel under the target directory
OutPath(rel) == Cwd \o <<Sep>> \o S_out \o <<Sep>> \o rel

OutRoot == Cwd \o <<Sep>> \o S_out

\* the paths of f below the target directory
UnderOut(f) == {p \in DOMAIN f : HasPrefix(p, OutRoot \o <<Sep>>)}

\* the header blocks of a tar file
HeaderCount(file) == Cardinality({i \in 1..Len(file.blocks) : file.blocks[i].t = "hdr"})

\* the number of blocks a reader goes through before it meets the end
\* marker, two zero blocks; all of them when there is none
BlocksRead(file) ==
    IF \E i \in 1..(Len(file.blocks) - 1) :
          file.blocks[i].t = "zero" /\ file.blocks[i + 1].t = "zero"
    THEN (CHOOSE i \in 1..(Len(file.blocks) - 1) :
            /\ file.blocks[i].t = "zero" /\ file.blocks[i + 1].t = "zero"
            /\ \A j \in 1..(i - 1) :
                  ~(file.blocks[j].t = "zero" /\ file.blocks[j + 1].t = "zero")) - 1
    ELSE Len(file.blocks)

\* the entries a reader finds in the file: the header blocks before the
\* end marker
EntriesRead(file) ==
    Cardinality({i \in 1..BlocksRead(file) : file.blocks[i].t = "hdr"})

\* some filter agrees with the name on the segments both have
PassesFilters(name, filters) ==
    \E k \in 1..Len(filters) : AgreeOnCommonPrefix(name, filters[k])

\* the last call was an UnTar that returned no error
UnTarSucceeded == last.op = "UnTar" /\ last.err = "nil"

\* whether an entry's name is relative and has no parent reference left
\* once it is cleaned
NameStaysInside(name) ==
    /\ ~IsAbs(name)
    /\ \A i \in 1..Len(Split(Clean(name))) : Split(Clean(name))[i] # DotDot

\* whether entry i of the last extraction is the last one of its destination
LastOfItsPath(i) ==
    \A j \in (i + 1)..Len(last.log) : last.log[j].dest # last.log[i].dest

\* whether entry i of the last extraction is the first one of its destination
FirstOfItsPath(i) ==
    \A j \in 1..(i - 1) : last.log[j].dest # last.log[i].dest

\* whether entry i is the one that decides what is at its path p: of the
\* entries with one path the last one, or with NoOverride the first one
\* unless a file was there before the call
DecidesItsPath(i, p) ==
    IF last.options.NoOverride
    THEN FirstOfItsPath(i) /\ ~(p \in DOMAIN last.prefs /\ last.prefs[p].kind # "dir")
    ELSE LastOfItsPath(i)

\* entry i of the log is on disk at p, as the archive has it if it is the
\* entry that decides the path
OnDiskAsArchived(i, p) ==
    /\ p \in DOMAIN fs
    /\ (last.log[i].typeflag = "Dir" /\ DecidesItsPath(i, p)) => fs[p].kind = "dir"
    /\ (last.log[i].typeflag = "Reg" /\ DecidesItsPath(i, p)) =>
          fs[p] = FileNode(last.log[i].data)

\* C2: UnTar with a non-empty filter list (and FlatDir unset) puts an entry
\* of the archive on disk if and only if its cleaned name passes the filter
\* matcher: an entry that passes is on disk afterwards, an entry that does
\* not pass is on disk only if it was there before, unchanged
C2_FiltersDecideExtraction ==
    (UnTarSucceeded /\ Len(last.options.Filters) > 0 /\ ~last.options.FlatDir) =>
        /\ Len(last.log) = EntriesRead(last.prearch[TarName])
        /\ \A i \in 1..Len(last.log) :
             IF PassesFilters(Clean(last.log[i].name), last.options.Filters)
             THEN OnDiskAsArchived(i, OutPath(Clean(last.log[i].name)))
             ELSE /\ (OutPath(Clean(last.log[i].name)) \in DOMAIN fs)
                       <=> (OutPath(Clean(last.log[i].name)) \in DOMAIN last.prefs)
                  /\ OutPath(Clean(last.log[i].name)) \in DOMAIN fs =>
                       fs[OutPath(Clean(last.log[i].name))]
                         = last.prefs[OutPath(Clean(last.log[i].name))]

\* the names of the entries of a tar file, in order
EntryNames(file) ==
    [i \in 1..HeaderCount(file) |->
        file.blocks[CHOOSE j \in 1..Len(file.blocks) :
            /\ file.blocks[j].t = "hdr"
            /\ Cardinality({k \in 1..j : file.blocks[k].t = "hdr"}) = i].name]

FixtureNames == <<S_a_txt, S_b_txt, S_c, S_c1_txt, S_c2_txt, S_d>>

\* C2, the scenario: the fixture's archive extracted with the filters
\* a.txt and c/c2.txt into a target that did not exist
C2_Scenario ==
    /\ UnTarSucceeded
    /\ last.options = [DefaultUnTarOptions EXCEPT !.Filters = <<S_a_txt, S_c2_txt>>]
    /\ last.prearch[TarName].kind = "raw"
    /\ EntryNames(last.prearch[TarName]) = FixtureNames
    /\ OutRoot \notin DOMAIN last.prefs

\* C2, the scenario's result: exactly a.txt, c and c/c2.txt are on disk
C2_ScenarioResult ==
    C2_Scenario =>
        /\ UnderOut(fs) = {OutPath(S_a_txt), OutPath(S_c), OutPath(S_c2_txt)}
        /\ fs[OutPath(S_c)].kind = "dir"
        /\ fs[OutPath(S_a_txt)] = last.prefs[Abs(S_input_a_txt)]
        /\ fs[OutPath(S_c2_txt)].kind = "file"

C2_FiltersHold == C2_FiltersDecideExtraction /\ C2_ScenarioResult

C2_Witness ==
    /\ C2_Scenario
    /\ OutPath(S_c2_txt) \in DOMAIN fs
    /\ OutPath(S_c1_txt) \notin DOMAIN fs
    /\ \E i \in 1..Len(last.log) : last.log[i].outcome = "filtered"

\* the last call was an extraction, from a tar or a zip file
Extraction == last.op \in {"UnTar", "UnZip"}

\* the number of entries of the archive the last extraction read
EntryCount ==
    IF last.op = "UnTar" THEN EntriesRead(last.prearch[TarName])
    ELSE Len(last.prearch[ZipName].zents)

\* C3: with NoOverride set, UnTar and UnZip never modify or remove a file
\* that is no directory and was there before the call, also when the archive
\* has an entry for its path with another content; the entry that is skipped
\* does not fail the call, which goes on to the next entry
C3_NoOverrideKeepsFiles ==
    (Extraction /\ last.options.NoOverride) =>
        /\ \A p \in DOMAIN last.prefs :
             last.prefs[p].kind # "dir" => (p \in DOMAIN fs /\ fs[p] = last.prefs[p])
        /\ \A i \in 1..Len(last.log) :
             last.log[i].outcome = "kept" =>
                (i < Len(last.log) \/ (last.err = "nil" /\ i = EntryCount))

\* a file of the target kept although the archive has another content for
\* it, and the next entry extracted
C3_Witness ==
    /\ last.op = "UnTar"
    /\ last.options.NoOverride
    /\ last.err = "nil"
    /\ Len(last.log) > 1
    /\ last.log[1].outcome = "kept"
    /\ last.log[1].typeflag = "Reg"
    /\ last.log[1].data # fs[Abs(last.log[1].dest)].data
    /\ fs[Abs(last.log[1].dest)] = last.prefs[Abs(last.log[1].dest)]
    /\ last.log[2].outcome = "extracted"

\* the last call was an UnTar with no option set but, possibly, NoOverride
PlainUnTar ==
    /\ last.op = "UnTar"
    /\ ~last.options.FlatDir
    /\ Len(last.options.Filters) = 0

\* the destinations the entries of the last extraction were written to
WrittenPaths ==
    {Abs(last.log[i].dest) :
        i \in {j \in 1..Len(last.log) :
                  last.log[j].outcome \in {"extracted", "kept", "failed"}}}

\* C4: with NoOverride unset, a successful UnTar replaces every regular file
\* of the target that has the path of a file entry by the entry's content
\* (the last such entry's, when the archive holds the path more than once),
\* and takes a directory entry whose directory is there already without
\* error; whatever the options and the result, a file of the target whose
\* path is no entry's destination stays, unchanged
C4_OverrideReplacesAndMerges ==
    (last.op = "UnTar" /\ ~last.options.NoOverride) =>
        /\ (PlainUnTar /\ last.err = "nil") =>
              \A i \in 1..Len(last.log) :
                 /\ Len(last.log) = EntriesRead(last.prearch[TarName])
                 /\ NameStaysInside(last.log[i].name) =>
                       last.log[i].dest = S_out \o <<Sep>> \o Clean(last.log[i].name)
                 /\ (last.log[i].typeflag = "Reg" /\ LastOfItsPath(i)) =>
                       fs[Abs(last.log[i].dest)] = FileNode(last.log[i].data)
                 /\ (last.log[i].typeflag = "Dir" /\ LastOfItsPath(i)) =>
                       fs[Abs(last.log[i].dest)] = DirNode
        /\ \A p \in DOMAIN last.prefs \ WrittenPaths :
              p \in DOMAIN fs /\ fs[p] = last.prefs[p]

\* the target of TestUnTarWithOverride after the fixture's archive was
\* extracted over it: a.txt replaced, c merged, c/z.txt kept
C4_Witness ==
    /\ PlainUnTar
    /\ ~last.options.NoOverride
    /\ last.err = "nil"
    /\ {OutPath(S_a_txt), OutPath(S_c)} \subseteq DOMAIN last.prefs
    /\ last.prefs[OutPath(S_a_txt)].kind = "file"
    /\ last.prefs[OutPath(S_a_txt)].data # fs[OutPath(S_a_txt)].data
    /\ fs[OutPath(S_a_txt)] = last.prefs[Abs(S_input_a_txt)]
    /\ last.prefs[OutPath(S_c)].kind = "dir"
    /\ OutPath(S_c1_txt) \in DOMAIN fs
    /\ OutPath(<<"c", Sep, "z", ".", "t", "x", "t">>) \in DOMAIN fs
    /\ fs[OutPath(<<"c", Sep, "z", ".", "t", "x", "t">>)]
         = last.prefs[OutPath(<<"c", Sep, "z", ".", "t", "x", "t">>)]

\* the last call was a successful UnTar with FlatDir set and no filter
FlatUnTar ==
    /\ UnTarSucceeded
    /\ last.options.FlatDir
    /\ Len(last.options.Filters) = 0
    /\ Len(last.log) = EntriesRead(last.prearch[TarName])

\* the directories of f below the target directory
DirsUnderOut(f) == {p \in UnderOut(f) : f[p].kind = "dir"}

\* the path of the base name of an entry's name, directly under the target
FlatPath(name) == OutPath(Base(Clean(name)))

\* the entries of the log that are no directories and go to the path p
EntriesAt(p) ==
    {i \in 1..Len(last.log) :
        last.log[i].typeflag # "Dir" /\ FlatPath(last.log[i].name) = p}

\* the node is what the entry e of the log is extracted as
IsNodeOf(node, e) ==
    IF e.typeflag = "Symlink" THEN node.kind = "symlink" ELSE node = FileNode(e.data)

\* no directory is made for a directory entry, and every other entry is
\* directly under the target root, under its base name
FlatLayout ==
    /\ DirsUnderOut(fs) = DirsUnderOut(last.prefs)
    /\ \A i \in 1..Len(last.log) :
          last.log[i].typeflag # "Dir" =>
             /\ FlatPath(last.log[i].name) \in DOMAIN fs
             /\ Abs(last.log[i].dest) = FlatPath(last.log[i].name)

\* where entries share a base name the last of them is what is on disk
LastWriteWins ==
    \A i \in 1..Len(last.log) :
        (last.log[i].typeflag # "Dir"
           /\ \A j \in EntriesAt(FlatPath(last.log[i].name)) : j <= i)
        => IsNodeOf(fs[FlatPath(last.log[i].name)], last.log[i])

\* where entries share a base name the first of them is what is on disk,
\* unless the path was there before the call, which then stays as it was
FirstWriteWins ==
    \A i \in 1..Len(last.log) :
        (last.log[i].typeflag # "Dir"
           /\ \A j \in EntriesAt(FlatPath(last.log[i].name)) : j >= i)
        => IF FlatPath(last.log[i].name) \in DOMAIN last.prefs
              /\ last.prefs[FlatPath(last.log[i].name)].kind # "dir"
           THEN fs[FlatPath(last.log[i].name)] = last.prefs[FlatPath(last.log[i].name)]
           ELSE IsNodeOf(fs[FlatPath(last.log[i].name)], last.log[i])

\* C5 as stated: with FlatDir set UnTar makes no directory for a directory
\* entry, has every other entry directly under the target root under its
\* base name, and of entries with one base name the later one wins
\* (checked for the calls that extract into a target that is not there yet)
C5_FlatDirLastWins ==
    (FlatUnTar /\ OutRoot \notin DOMAIN last.prefs) => (FlatLayout /\ LastWriteWins)

\* C5, amended: the same layout; the later entry wins when NoOverride is
\* unset, the earlier one (or the file that was there) when it is set
C5_FlatDirWinsByOverride ==
    FlatUnTar =>
        /\ FlatLayout
        /\ ~last.options.NoOverride => LastWriteWins
        /\ last.options.NoOverride => FirstWriteWins

\* two entries with the base name a.txt flattened, the later one on disk
C5_Witness ==
    /\ FlatUnTar
    /\ ~last.options.NoOverride
    /\ \E i, j \in 1..Len(last.log) :
          /\ i < j
          /\ {i, j} \subseteq EntriesAt(OutPath(S_a_txt))
          /\ last.log[i].data # last.log[j].data
          /\ fs[OutPath(S_a_txt)].data = last.log[j].data
    /\ \E i \in 1..Len(last.log) : last.log[i].typeflag = "Dir"
    /\ DirsUnderOut(fs) = {}

(***************************************************************************)
(* Properties of Tar                                                       *)
(***************************************************************************)
\* the last call was a Tar that made a new archive of everything below the
\* source and returned no error
TarCreated ==
    /\ last.op = "Tar"
    /\ last.err = "nil"
    /\ ~last.options.Append
    /\ Len(last.options.Filters) = 0

\* the objects of f at and below the absolute path a
ObjectsAt(f, a) ==
    IF a = <<Sep>> THEN DOMAIN f
    ELSE {p \in DOMAIN f : p = a \/ HasPrefix(p, a \o <<Sep>>)}

\* the path p as a name relative to the directory base, which is above it
NameUnder(p, base) ==
    IF base = <<Sep>> THEN SubSeq(p, 2, Len(p)) ELSE SubSeq(p, Len(base) + 2, Len(p))

\* the names Tar is to give the objects of the source src of f
ExpectedNames(f, src, includeSourceDir) ==
    IF f[Abs(src)].kind = "dir" /\ ~includeSourceDir
    THEN {NameUnder(p, Abs(src)) : p \in ObjectsAt(f, Abs(src)) \ {Abs(src)}}
    ELSE {NameUnder(p, Dir(Abs(src))) : p \in ObjectsAt(f, Abs(src))}

\* the name p comes before the name q in a depth-first walk that takes the
\* names of a directory in lexical order: at the first segment where they
\* differ p has the lesser one, or p has none (it is a directory above q)
WalkedBefore(p, q) ==
    \E k \in 1..NumSegments(q) :
        /\ \A j \in 1..(k - 1) : j <= NumSegments(p) /\ SegmentAt(p, j) = SegmentAt(q, j)
        /\ \/ k = NumSegments(p) + 1
           \/ k <= NumSegments(p) /\ StrLess(SegmentAt(p, k), SegmentAt(q, k))

\* the names are those of the set, each once, in the order of the walk
InWalkOrder(names, set) ==
    /\ Len(names) = Cardinality(set)
    /\ {names[i] : i \in 1..Len(names)} = set
    /\ \A i, j \in 1..Len(names) : i < j => WalkedBefore(names[i], names[j])

Under(dir, names) == [i \in 1..Len(names) |-> dir \o <<Sep>> \o names[i]]

\* C6: Tar writes one entry per object it visits, in depth-first pre-order
\* with the names of a directory in lexical order, named relative to the
\* source directory, or to its parent when IncludeSourceDir is set; the
\* fixture gives a.txt, b.txt, c, c/c1.txt, c/c2.txt, d, with
\* IncludeSourceDir input, input/a.txt, ..., input/d, and a single file
\* gives one entry named by its base name
C6_TarEntriesInWalkOrder ==
    TarCreated =>
        /\ InWalkOrder(EntryNames(arch[TarName]),
                       ExpectedNames(last.prefs, last.src, last.options.IncludeSourceDir))
        /\ (last.src = S_input /\ ~last.options.IncludeSourceDir) =>
              EntryNames(arch[TarName]) = FixtureNames
        /\ (last.src = S_input /\ last.options.IncludeSourceDir) =>
              EntryNames(arch[TarName]) = <<S_input>> \o Under(S_input, FixtureNames)
        /\ last.prefs[Abs(last.src)].kind # "dir" =>
              EntryNames(arch[TarName]) = <<Base(last.src)>>

\* the fixture archived with its directory included
C6_Witness ==
    /\ TarCreated
    /\ last.src = S_input
    /\ last.options.IncludeSourceDir
    /\ Len(EntryNames(arch[TarName])) = 7
    /\ EntryNames(arch[TarName])[1] = S_input
    /\ EntryNames(arch[TarName])[6] = S_input \o <<Sep>> \o S_c2_txt

(***************************************************************************)
(* Tar and then UnTar                                                      *)
(***************************************************************************)
\* the source trees that hold regular files and directories only
PlainTrees ==
    {src \in SrcPaths :
        /\ Abs(src) \in DOMAIN SourceFs
        /\ SourceFs[Abs(src)].kind = "dir"
        /\ \A p \in ObjectsAt(SourceFs, Abs(src)) : SourceFs[p].kind \in {"dir", "file"}}

\* the last call was an UnTar with no option, into a target that was not
\* there, of the archive that Tar with no option makes of the tree src
RoundTripOf(src) ==
    /\ last.op = "UnTar"
    /\ last.options = DefaultUnTarOptions
    /\ OutRoot \notin DOMAIN last.prefs
    /\ Tar(last.prefs, NoFile, src, DefaultTarOptions).err = "nil"
    /\ last.prearch[TarName] = Tar(last.prefs, NoFile, src, DefaultTarOptions).file

\* the target holds what the tree src holds: the same relative paths, the
\* same kinds, the same content
SameTree(src) ==
    /\ {NameUnder(p, OutRoot) : p \in UnderOut(fs)}
         = {NameUnder(p, Abs(src)) : p \in ObjectsAt(fs, Abs(src)) \ {Abs(src)}}
    /\ \A p \in UnderOut(fs) :
          fs[p] = fs[Abs(src) \o <<Sep>> \o NameUnder(p, OutRoot)]

\* C7: Tar of a tree of regular files and directories, then UnTar of the
\* archive into an empty directory, succeeds and gives the target the
\* relative paths of the tree, every file with the content of its source
C7_RoundTrip ==
    \A src \in PlainTrees : RoundTripOf(src) => (last.err = "nil" /\ SameTree(src))

\* the round trip of the tree in3, whose only file is named BZh: its
\* archive begins with the bytes of that name, is taken for a bzip2 stream
\* and is not read; the target is made and stays empty
C7_Witness ==
    /\ RoundTripOf(S_in3)
    /\ last.err = "ErrFormat"
    /\ OutRoot \in DOMAIN fs
    /\ UnderOut(fs) = {}

(***************************************************************************)
(* Properties of Append                                                    *)
(***************************************************************************)
\* the headers Tar wrote into a tar file, in order
HeadersOf(file) ==
    [i \in 1..HeaderCount(file) |->
        LET b == file.blocks[CHOOSE j \in 1..Len(file.blocks) :
                     /\ file.blocks[j].t = "hdr"
                     /\ Cardinality({k \in 1..j : file.blocks[k].t = "hdr"}) = i]
        IN  [name |-> b.name, typeflag |-> b.typeflag, size |-> b.size,
             linkname |-> b.linkname]]

\* the archives Tar with no option makes of the sources
CreatedTars(f) ==
    {Tar(f, NoFile, src, DefaultTarOptions).file : src \in SrcPaths \ {S_nosuch}}

\* the last call was a Tar with Append that returned no error, on an
\* uncompressed archive that Tar had created
AppendedToCreated ==
    /\ last.op = "Tar"
    /\ last.options.Append
    /\ last.err = "nil"
    /\ last.prearch[TarName].kind = "raw"
    /\ last.prearch[TarName] \in CreatedTars(last.prefs)

\* the entries the last Tar was to write: those of a new archive of its
\* source
AddedHeaders ==
    HeadersOf(Tar(last.prefs, NoFile, last.src,
                  [last.options EXCEPT !.Append = FALSE]).file)

\* C8: after Tar created an uncompressed archive with the entries E1 and a
\* Tar with Append on it succeeded with the entries E2, ListTar returns E1
\* followed by E2, in the order they were written
C8_AppendKeepsOrder ==
    AppendedToCreated =>
        /\ ListTar(arch[TarName]).err = "nil"
        /\ ListTar(arch[TarName]).headers
             = HeadersOf(last.prearch[TarName]) \o AddedHeaders

\* the tree in3, whose only file is named BZh, appended to the archive of
\* an empty directory: the append succeeds, the archive holds the entry and
\* begins with the bytes of its name, and ListTar takes it for a bzip2
\* stream and fails
C8_Witness ==
    /\ AppendedToCreated
    /\ last.src = S_in3
    /\ HeaderCount(last.prearch[TarName]) = 0
    /\ HeadersOf(arch[TarName]) = AddedHeaders
    /\ Len(AddedHeaders) = 1
    /\ ListTar(arch[TarName]).err = "ErrFormat"

\* the file begins with the magic number of gzip or of bzip2
BeginsCompressed(file) ==
    /\ file.kind # "absent"
    /\ Len(LeadingBytes(file)) >= 3
    /\ SubSeq(LeadingBytes(file), 1, 3) \in {GzipMagic, Bzip2Magic}

\* the last call was a Tar with Append, of a source that is there, on an
\* archive that is detected as compressed
AppendToCompressed ==
    /\ last.op = "Tar"
    /\ last.options.Append
    /\ Abs(last.src) \in DOMAIN last.prefs
    /\ BeginsCompressed(last.prearch[TarName])

\* C9: Tar with Append on an archive detected as Gzip or Bzip2 fails with
\* ErrAppendNotSupported, and the archive file is there afterwards with
\* the bytes it had
C9_AppendToCompressedRejected ==
    AppendToCompressed =>
        /\ last.err = ErrAppendNotSupported
        /\ arch[TarName] = last.prearch[TarName]
        /\ arch[TarName].kind # "absent"

\* an append to the gzip archive of the fixture, rejected
C9_Witness ==
    /\ AppendToCompressed
    /\ last.prearch[TarName].kind = "gzip"
    /\ last.src = S_input
    /\ last.err = ErrAppendNotSupported
    /\ arch[TarName] = last.prearch[TarName]

\* the last call was a Zip with Append, of a source that is there, on a zip
\* archive that is there
ZipAppend ==
    /\ last.op = "Zip"
    /\ last.options.Append
    /\ Abs(last.src) \in DOMAIN last.prefs
    /\ last.prearch[ZipName].kind = "zip"

\* C10: Zip with Append on a zip archive that is there is rejected with the
\* append-not-supported error and leaves the archive file as it was; the
\* option is never ignored in silence
C10_ZipAppendRejected ==
    ZipAppend =>
        /\ last.err = ErrAppendNotSupported
        /\ arch[ZipName] = last.prearch[ZipName]

\* a Zip with Append that returned no error and left the archive that a Zip
\* without Append makes of its source: what the archive held is gone
C10_Witness ==
    /\ ZipAppend
    /\ last.err = "nil"
    /\ arch[ZipName] # last.prearch[ZipName]
    /\ arch[ZipName]
         = Zip(last.prefs, NoFile, last.src, [last.options EXCEPT !.Append = FALSE]).file
    /\ \E i \in 1..Len(last.prearch[ZipName].zents) :
          \A j \in 1..Len(arch[ZipName].zents) :
             arch[ZipName].zents[j] # last.prearch[ZipName].zents[i]

(***************************************************************************)
(* Properties of ReadTar                                                   *)
(***************************************************************************)
\* the file is a whole tar archive, compressed or not: no bytes at all, or
\* entries followed by the two zero blocks that end an archive
WholeTar(file) ==
    /\ file.kind \in {"raw", "gzip", "bzip2"}
    /\ ~file.cut
    /\ \/ Len(file.blocks) = 0
       \/ /\ Len(file.blocks) >= 2
          /\ file.blocks[Len(file.blocks)].t = "zero"
          /\ file.blocks[Len(file.blocks) - 1].t = "zero"

\* the entries of the archive whose cleaned name is the cleaned fileName
MatchingEntries(file, fileName) ==
    {i \in 1..HeaderCount(file) : Clean(HeadersOf(file)[i].name) = Clean(fileName)}

\* the last call was a ReadTar on a whole archive
ReadWholeTar == last.op = "ReadTar" /\ WholeTar(last.prearch[TarName])

\* C11: ReadTar on an archive none of whose entries has the cleaned name
\* asked for returns os.ErrNotExist, no header and no reader; it never
\* returns io.EOF for it
C11_ReadTarNotFound ==
    (ReadWholeTar /\ MatchingEntries(last.prearch[TarName], last.src) = {}) =>
        /\ last.err = ErrNotExist
        /\ last.headers = <<NoHeader>>
        /\ sess.reader = NoReader

\* ReadTar on an archive file of no bytes: it returns io.EOF, the error of
\* the read in detectCompression, and not os.ErrNotExist
C11_Witness ==
    /\ ReadWholeTar
    /\ last.prearch[TarName] = EmptyTar
    /\ last.src = S_a_txt
    /\ last.err = "EOF"
    /\ sess.reader = NoReader

\* the index of the block that is the i-th header of the file
HeaderIndex(file, i) ==
    CHOOSE j \in 1..Len(file.blocks) :
        /\ file.blocks[j].t = "hdr"
        /\ Cardinality({k \in 1..j : file.blocks[k].t = "hdr"}) = i

\* the content the archive holds for its i-th entry
ContentOf(file, i) ==
    SubSeq(ConcatBytes(SubSeq(file.blocks, HeaderIndex(file, i) + 1,
                              HeaderIndex(file, i)
                                + BlocksFor(file.blocks[HeaderIndex(file, i)].size))),
           1, file.blocks[HeaderIndex(file, i)].size)

\* the first entry of the archive whose cleaned name is the cleaned fileName
FirstMatching(file, fileName) ==
    CHOOSE i \in MatchingEntries(file, fileName) :
        \A j \in MatchingEntries(file, fileName) : i <= j

\* ReadTar returned the i-th entry of the archive: its header, no error, and
\* a reader at its content if it is a regular file, no reader if it is not
ReturnedEntry(file, i) ==
    /\ last.err = "nil"
    /\ last.headers = <<HeadersOf(file)[i]>>
    /\ IF IsRegular(HeadersOf(file)[i].typeflag)
       THEN /\ sess.reader.kind = "tar"
            /\ sess.reader.data = ContentOf(file, i)
       ELSE sess.reader = NoReader

\* C12: ReadTar on an archive that has an entry whose cleaned name is the
\* cleaned name asked for returns the header of the first such entry and no
\* error, with a reader at the entry's content if the entry is a regular
\* file and with no reader if it is a directory or of another kind
C12_ReadTarFound ==
    (ReadWholeTar /\ MatchingEntries(last.prearch[TarName], last.src) # {}) =>
        ReturnedEntry(last.prearch[TarName],
                      FirstMatching(last.prearch[TarName], last.src))

\* ReadTar asked for the entry BZh of the archive Tar made of the tree in3:
\* the archive begins with the bytes of that name, is taken for a bzip2
\* stream, and the entry that is there is not returned
C12_Witness ==
    /\ last.op = "ReadTar"
    /\ last.prearch[TarName] = Tar(last.prefs, NoFile, S_in3, DefaultTarOptions).file
    /\ last.src = <<"B", "Z", "h">>
    /\ MatchingEntries(last.prearch[TarName], last.src) = {1}
    /\ last.err = "ErrFormat"
    /\ sess.reader = NoReader

(***************************************************************************)
(* Properties of detectCompression                                         *)
(***************************************************************************)
\* the file begins with the bytes magic
BeginsWith(content, magic) ==
    Len(content) >= Len(magic) /\ SubSeq(content, 1, Len(magic)) = magic

\* the compression the leading bytes of a file stand for
CompressionOf(content) ==
    IF BeginsWith(content, <<31, 139, 8>>) THEN "Gzip"
    ELSE IF BeginsWith(content, <<66, 90, 104>>) THEN "Bzip2"
    ELSE "Uncompressed"

\* C13: detectCompression returns Gzip for a file that begins with 1F 8B 08,
\* Bzip2 for one that begins with 42 5A 68 and Uncompressed for every other
\* file, a file of fewer than 4 bytes and a file of no bytes among them; it
\* returns no error when no read or seek of the file fails
C13_DetectByLeadingBytes ==
    last.op = "detected" =>
        /\ last.result.err = "nil"
        /\ last.result.compression = CompressionOf(last.content)

\* detectCompression on a file of no bytes: it returns io.EOF
C13_Witness ==
    /\ last.op = "detected"
    /\ last.content = <<>>
    /\ last.result.err = "EOF"

\* the last call opened the tar file, and detectCompression read its
\* leading bytes and returned no error
DetectReturned ==
    /\ last.op \in {"ListTar", "UnTar", "ReadTar"}
    /\ last.prearch[TarName].kind # "absent"
    /\ Len(LeadingBytes(last.prearch[TarName])) > 0

\* the last call was a ListTar of a whole uncompressed archive that does
\* not begin with a magic number
ListedPlainTar ==
    /\ last.op = "ListTar"
    /\ WholeTar(last.prearch[TarName])
    /\ last.prearch[TarName].kind = "raw"
    /\ ~BeginsCompressed(last.prearch[TarName])

\* the index of the first block of the end marker of a whole archive
EndMarkerAt(file) ==
    CHOOSE i \in 1..(Len(file.blocks) - 1) :
        /\ file.blocks[i].t = "zero" /\ file.blocks[i + 1].t = "zero"
        /\ \A j \in 1..(i - 1) :
              ~(file.blocks[j].t = "zero" /\ file.blocks[j + 1].t = "zero")

\* the headers of a whole archive that come before its end marker
HeadersToRead(file) ==
    IF Len(file.blocks) = 0 THEN <<>>
    ELSE HeadersOf(RawFile(SubSeq(file.blocks, 1, EndMarkerAt(file) - 1)))

ChangedPaths(f, g) ==
    {p \in DOMAIN f \cup DOMAIN g :
        ~(p \in DOMAIN f /\ p \in DOMAIN g /\ f[p] = g[p])}

\* the path is the target directory or lies in it
InsideOut(p) == p = OutRoot \/ HasPrefix(p, OutRoot \o <<Sep>>)

\* C15: whatever the archive holds, entries with parent references or
\* absolute names among them, and whatever the options, UnTar creates,
\* removes and overwrites only paths inside the target directory
C15_UnTarStaysInside ==
    last.op = "UnTar" => \A p \in ChangedPaths(last.prefs, fs) : InsideOut(p)

\* UnTar of an archive with the entry ../x into the directory out: the
\* file x is written next to out, not in it
C15_Witness ==
    /\ last.op = "UnTar"
    /\ last.prearch[TarName] = EscapingTar
    /\ last.err = "nil"
    /\ Cwd \o <<Sep, "x">> \notin DOMAIN last.prefs
    /\ Cwd \o <<Sep, "x">> \in DOMAIN fs
    /\ fs[Cwd \o <<Sep, "x">>] = FileNode(<<"x", "\n">>)
    /\ ~InsideOut(Cwd \o <<Sep, "x">>)

(***************************************************************************)
(* Properties of the session: removal on failure, closing                  *)
(***************************************************************************)
\* the last call was a Tar without Append that created the archive file
\* and failed afterwards
TarFailedAfterCreate ==
    /\ last.op = "Tar"
    /\ ~last.options.Append
    /\ last.options.Compression # "Bzip2"
    /\ Abs(last.src) \in DOMAIN last.prefs
    /\ last.err # "nil"

\* C16: when a Tar without Append fails after it created the archive file,
\* the file is closed and is no longer on disk when Tar returns
C16_FailedTarRemovesArchive ==
    TarFailedAfterCreate => (arch[TarName] = NoFile /\ sess.open = 0)

\* Tar of the tree in4, whose file x cannot be opened: the header of x is
\* written, os.Open fails, and when Tar returns the archive file is on disk
\* with that header and its handle is open
C16_Witness ==
    /\ TarFailedAfterCreate
    /\ last.src = S_in4
    /\ last.options = DefaultTarOptions
    /\ last.err = "EACCES"
    /\ arch[TarName].kind = "raw"
    /\ HeaderCount(arch[TarName]) = 1
    /\ sess.open = 1
    /\ sess.closed = <<>>

\* the order in which the layers of a session are to be closed
LayerOrder == <<"tarWriter", "compressReader", "compressWriter", "file">>

\* the rank of a layer in that order
LayerRank(layer) == CHOOSE i \in 1..Len(LayerOrder) : LayerOrder[i] = layer

\* the layers were closed once each, in order, the file last
ClosedInOrder(closed) ==
    /\ \A i \in 1..(Len(closed) - 1) : LayerRank(closed[i]) < LayerRank(closed[i + 1])
    /\ Len(closed) > 0 => closed[Len(closed)] = "file"

\* the last call was one of the tar operations
TarOperation == last.op \in {"Tar", "ListTar", "UnTar", "ReadTar"}

\* C17: on every return path of Tar, ListTar, UnTar and ReadTar the session
\* the call opened or created is closed once, the tar writer first, then
\* the compression stream, then the file, and no file handle on the archive
\* is open once the call has returned without handing a reader to the caller
C17_SessionClosedOnEveryPath ==
    TarOperation =>
        /\ ClosedInOrder(sess.closed)
        /\ sess.reader = NoReader => sess.open = 0

\* Tar with Append on the gzip archive of the fixture: openTarFile returns
\* ErrAppendNotSupported without closing the file it opened
C17_Witness ==
    /\ last.op = "Tar"
    /\ last.options.Append
    /\ last.src = S_input
    /\ last.prearch[TarName].kind = "gzip"
    /\ last.err = ErrAppendNotSupported
    /\ sess.reader = NoReader
    /\ sess.closed = <<>>
    /\ sess.open = 1

\* the last call was a Tar without Append, of a source that is there, that
\* asked for a bzip2 archive
TarToBzip2 ==
    /\ last.op = "Tar"
    /\ ~last.options.Append
    /\ last.options.Compression = "Bzip2"
    /\ Abs(last.src) \in DOMAIN last.prefs

\* the last call read a bzip2 archive of entries through openTarFile
ReadBzip2 ==
    /\ last.op \in {"ListTar", "UnTar", "ReadTar"}
    /\ last.prearch[TarName].kind = "bzip2"

\* C18: Tar with Compression Bzip2 and no Append fails with
\* ErrBzip2NotSupported and leaves what is under the archive's name as it
\* was, a file with its content or no file; openTarFile accepts a bzip2
\* archive that is read, and lists the entries of one that is whole
C18_Bzip2CreateRejected ==
    /\ TarToBzip2 =>
          /\ last.err = ErrBzip2NotSupported
          /\ arch[TarName] = last.prearch[TarName]
    /\ ReadBzip2 => last.err \notin {ErrBzip2NotSupported, ErrAppendNotSupported}
    /\ (ReadBzip2 /\ last.op = "ListTar" /\ HeaderCount(last.prearch[TarName]) > 1) =>
          /\ last.err = "nil"
          /\ Len(last.headers) = EntriesRead(last.prearch[TarName])

\* a Tar to bzip2 over an archive that is there, rejected, the archive as
\* it was
C18_Witness ==
    /\ TarToBzip2
    /\ last.src = S_input
    /\ HeaderCount(last.prearch[TarName]) > 0
    /\ last.err = ErrBzip2NotSupported
    /\ arch[TarName] = last.prearch[TarName]

(***************************************************************************)
(* Properties of UnTar on an entry of a type it does not handle            *)
(***************************************************************************)
\* the type of the header is none of directory, regular file and symlink
UnhandledType(typeflag) == typeflag \notin {"Dir", "Reg", "Symlink"}

\* the name passes the filters of the options, which an empty list lets
\* every name do
PassesOptions(name, filters) ==
    Len(filters) = 0 \/ PassesFilters(Clean(name), filters)

\* the last call was an UnTar whose loop came to entry i, an entry of a
\* type that is not handled and that passes the filters
UnTarMetUnhandled(i) ==
    /\ last.op = "UnTar"
    /\ i \in 1..Len(last.log)
    /\ UnhandledType(last.log[i].typeflag)
    /\ PassesOptions(last.log[i].name, last.options.Filters)

\* the operands of the error name the entry
ErrorNames(name) ==
    \E k \in 1..Len(sess.args) :
        sess.args[k].field = "Name" /\ sess.args[k].value = name

\* the entries before entry i that were written are on disk as extracted
EarlierEntriesStay(i) ==
    \A j \in 1..(i - 1) :
        (last.log[j].outcome = "extracted" /\ last.log[j].dest # last.log[i].dest) =>
            OnDiskAsArchived(j, Abs(last.log[j].dest))

\* the entries of the archive after entry i were not read, and nothing of
\* them is on disk that was not there before the call
NoLaterEntry(i) ==
    /\ Len(last.log) = i
    /\ \A j \in (i + 1)..HeaderCount(last.prearch[TarName]) :
         LET p == OutPath(Clean(EntryNames(last.prearch[TarName])[j]))
         IN  /\ p \in DOMAIN fs <=> p \in DOMAIN last.prefs
             /\ p \in DOMAIN fs => fs[p] = last.prefs[p]

\* C19: when UnTar meets an entry that passes the filters and whose type is
\* none of directory, regular file and symlink, it returns the error of an
\* unhandled type, and the error names that entry; the entries extracted
\* before it stay on disk and no entry after it is extracted
C19_UnhandledTypeNamesEntry ==
    last.op = "UnTar" =>
        \A i \in 1..Len(last.log) :
            UnTarMetUnhandled(i) =>
                /\ last.err = ErrUnhandledType
                /\ ErrorNames(last.log[i].name)
                /\ EarlierEntriesStay(i)
                /\ NoLaterEntry(i)

\* UnTar of the archive with a fifo between two files: the error carries
\* the type of the entry and not its name, a.txt is on disk, b.txt is not
C19_Witness ==
    /\ UnTarMetUnhandled(2)
    /\ last.prearch[TarName] = FifoTar
    /\ last.options = DefaultUnTarOptions
    /\ last.log[2].name = <<"p">>
    /\ last.err = ErrUnhandledType
    /\ sess.args = <<[field |-> "Typeflag", value |-> "Fifo"]>>
    /\ fs[OutPath(S_a_txt)] = FileNode(<<"a", "\n">>)
    /\ OutPath(S_b_txt) \notin DOMAIN fs

(***************************************************************************)
(* Properties of the readers ReadTar and ReadZip hand out                  *)
(***************************************************************************)
\* the last call was Close on a reader that ReadTar or ReadZip returned
ReaderClosed == last.op \in {"TarReader.Close", "ZipReader.Close"}

\* the last call was a ReadZip on a zip archive that is there and that
\* returned no reader: no entry has the name
ReadZipFoundNothing ==
    /\ last.op = "ReadZip"
    /\ last.prearch[ZipName].kind = "zip"
    /\ sess.reader = NoReader

\* C20: Close on the reader that ReadTar or ReadZip returned returns nil
\* and leaves no handle on the archive open; a ReadZip that finds no entry
\* of the name has closed the zip archive it opened when it returns
C20_ReaderCloseClosesArchive ==
    /\ ReaderClosed => (last.err = "nil" /\ sess.open = 0)
    /\ ReadZipFoundNothing => (last.err # "nil" /\ sess.open = 0)

\* Close on the reader ReadZip returned for a.txt: it returns nil and the
\* handle on the zip archive is still open
C20_Witness ==
    /\ last.op = "ZipReader.Close"
    /\ last.src = S_a_txt
    /\ last.err = "nil"
    /\ sess.reader = NoReader
    /\ sess.closed = <<>>
    /\ sess.open = 1

(***************************************************************************)
(* Properties of the streams of a session                                  *)
(***************************************************************************)
\* C21: the session of a call holds a tar reader or a tar writer but never
\* both, and a compression reader or a compression writer but never both,
\* also when openTarFile opened it for an append
C21_ReaderXorWriter ==
    /\ ~(sess.layers.TarReader /\ sess.layers.TarWriter)
    /\ ~(sess.layers.CompressReader /\ sess.layers.CompressWriter)

\* a Tar with Append on an uncompressed archive: the session openTarFile
\* returned held a tar reader and a tar writer
C21_Witness ==
    /\ last.op = "Tar"
    /\ last.options.Append
    /\ last.src = S_input
    /\ last.prearch[TarName].kind = "raw"
    /\ last.err = "nil"
    /\ sess.layers.TarReader
    /\ sess.layers.TarWriter
    /\ ~sess.layers.CompressReader
    /\ ~sess.layers.CompressWriter

(***************************************************************************)
(* Properties of an append to an archive that ends in padding              *)
(***************************************************************************)
\* the file is an uncompressed tar archive that is valid: its entries are
\* whole, it ends with two zero blocks or more, and it lists
ValidPlainTar(file) ==
    /\ file.kind = "raw"
    /\ WholeTar(file)
    /\ Len(file.blocks) >= 2
    /\ ListTar(file).err = "nil"
    /\ ListTar(file).headers = HeadersOf(file)

\* the last call was a Tar with Append that returned no error, on a valid
\* uncompressed archive
AppendedToValid ==
    /\ last.op = "Tar"
    /\ last.options.Append
    /\ last.err = "nil"
    /\ ValidPlainTar(last.prearch[TarName])

\* C22: after a Tar with Append succeeded on a valid uncompressed archive,
\* one that ends in more than two zero blocks included, ListTar returns the
\* entries the archive had followed by the entries that were appended
C22_AppendOverwritesEndMarker ==
    AppendedToValid =>
        /\ ListTar(arch[TarName]).err = "nil"
        /\ ListTar(arch[TarName]).headers
             = HeadersOf(last.prearch[TarName]) \o AddedHeaders

\* the fixture appended to the archive that ends in four zero blocks: the
\* append succeeds and writes its entries after the first two zero blocks,
\* where ListTar never comes
C22_Witness ==
    /\ AppendedToValid
    /\ last.prearch[TarName] = PaddedTar
    /\ last.src = S_input
    /\ last.options.Filters = <<>>
    /\ Len(AddedHeaders) > 0
    /\ HeaderCount(arch[TarName]) = HeaderCount(PaddedTar) + Len(AddedHeaders)
    /\ ListTar(arch[TarName]).err = "nil"
    /\ ListTar(arch[TarName]).headers = HeadersOf(PaddedTar)

(***************************************************************************)
(* Properties of the filters at write time                                 *)
(***************************************************************************)
\* the last call was a Tar or a Zip that made a new archive with a filter
\* list that is not empty and returned no error
WroteFiltered(op) ==
    /\ last.op = op
    /\ last.err = "nil"
    /\ ~last.options.Append
    /\ Len(last.options.Filters) > 0

\* the names of the objects of the source that pass the filters
FilteredNames ==
    {n \in ExpectedNames(last.prefs, last.src, last.options.IncludeSourceDir) :
        PassesFilters(n, last.options.Filters)}

\* the cleaned names of the entries of a zip file
ZipNames(file) == {Clean(file.zents[i].name) : i \in 1..Len(file.zents)}

\* C23: with a filter list that is not empty Tar archives an object it
\* visits if and only if its name relative to the base directory passes
\* the matcher, directories above a filtered path included, so that the
\* filter c/c2.txt gives the entries c and c/c2.txt; Zip does the same
C23_FiltersDecideArchiving ==
    /\ WroteFiltered("Tar") =>
          /\ InWalkOrder(EntryNames(arch[TarName]), FilteredNames)
          /\ (last.src = S_input /\ last.options.Filters = <<S_c2_txt>>) =>
                EntryNames(arch[TarName]) = <<S_c, S_c2_txt>>
    /\ WroteFiltered("Zip") =>
          /\ Len(arch[ZipName].zents) = Cardinality(FilteredNames)
          /\ ZipNames(arch[ZipName]) = FilteredNames

\* the fixture archived with the filter c/c2.txt: c and c/c2.txt are in
\* the archive and nothing else
C23_Witness ==
    /\ WroteFiltered("Tar")
    /\ last.src = S_input
    /\ last.options.Filters = <<S_c2_txt>>
    /\ EntryNames(arch[TarName]) = <<S_c, S_c2_txt>>
    /\ HeadersOf(arch[TarName])[1].typeflag = "Dir"
    /\ Cardinality(ExpectedNames(last.prefs, last.src, FALSE)) = 6

(***************************************************************************)
(* Properties of the names Tar writes                                      *)
(***************************************************************************)
\* the last call was a Tar that wrote the archive: it returned no error, or
\* it left the archive other than it found it
TarCalled ==
    /\ last.op = "Tar"
    /\ last.err = "nil" \/ arch[TarName] # last.prearch[TarName]

\* the index of the first entry the last Tar wrote into the archive
FirstWritten ==
    IF last.options.Append THEN HeaderCount(last.prearch[TarName]) + 1 ELSE 1

\* the name has a segment that is a parent reference
HasParentSegment(name) == \E k \in 1..Len(Split(name)) : Split(name)[k] = DotDot

\* C24: whatever the source path and IncludeSourceDir are, the source paths
\* ".", ".." and those that end in a parent reference included, no entry
\* that Tar writes is named "." and no name it writes has a ".." segment
C24_NoDotNoParentInNames ==
    TarCalled =>
        \A i \in FirstWritten..HeaderCount(arch[TarName]) :
            /\ EntryNames(arch[TarName])[i] # Dot
            /\ ~HasParentSegment(EntryNames(arch[TarName])[i])

\* Tar of ".." with IncludeSourceDir: the first entry is named ".." and
\* the one of the working directory "../w"
C24_Witness ==
    /\ TarCalled
    /\ last.src = DotDot
    /\ last.options = [DefaultTarOptions EXCEPT !.IncludeSourceDir = TRUE]
    /\ last.err = "nil"
    /\ EntryNames(arch[TarName])[1] = DotDot
    /\ EntryNames(arch[TarName])[2] = DotDot \o Cwd
    /\ HeadersOf(arch[TarName])[1].typeflag = "Dir"

\* Tar of "." with IncludeSourceDir: the directory itself is not written
\* and the names are relative to it, as they are without the option
C6_WitnessDot ==
    /\ TarCreated
    /\ last.src = Dot
    /\ last.options.IncludeSourceDir
    /\ InWalkOrder(EntryNames(arch[TarName]), ExpectedNames(last.prefs, Dot, FALSE))
    /\ EntryNames(arch[TarName])[1] = S_in2
    /\ \A i \in 1..HeaderCount(arch[TarName]) : EntryNames(arch[TarName])[i] # <<"w">>

(***************************************************************************)
(* Properties of symbolic links                                            *)
(***************************************************************************)
\* the symbolic links at and below the source of the last call
SourceLinks ==
    {p \in ObjectsAt(last.prefs, Abs(last.src)) : last.prefs[p].kind = "symlink"}

\* the last call was a Zip that made an archive of everything below the
\* source and returned no error
ZipCreatedAll ==
    /\ last.op = "Zip"
    /\ last.err = "nil"
    /\ Len(last.options.Filters) = 0

\* entry i of the last extraction was written to its path and no later
\* entry was
WrittenLast(i) ==
    /\ last.log[i].outcome \notin {"filtered", "flatskip", "kept", "failed"}
    /\ LastOfItsPath(i)

\* the tar entries of the links of the source carry the target and no
\* content
TarKeepsLinks ==
    TarCreated =>
        \A p \in SourceLinks :
            \E i \in 1..HeaderCount(arch[TarName]) :
                /\ Base(HeadersOf(arch[TarName])[i].name) = Base(p)
                /\ HeadersOf(arch[TarName])[i].typeflag = "Symlink"
                /\ HeadersOf(arch[TarName])[i].linkname = last.prefs[p].link
                /\ HeadersOf(arch[TarName])[i].size = 0

\* UnTar makes a link with the recorded target of a symlink entry
UnTarMakesLinks ==
    UnTarSucceeded =>
        \A i \in 1..Len(last.log) :
            (last.log[i].typeflag = "Symlink" /\ WrittenLast(i)) =>
                /\ Abs(last.log[i].dest) \in DOMAIN fs
                /\ fs[Abs(last.log[i].dest)]
                     = LinkNode(HeadersOf(last.prearch[TarName])[i].linkname)

\* the zip entries of the links of the source carry the target and not the
\* content of the file the link leads to
ZipKeepsLinks ==
    ZipCreatedAll =>
        \A p \in SourceLinks :
            \E i \in 1..Len(arch[ZipName].zents) :
                /\ Base(arch[ZipName].zents[i].name) = Base(p)
                /\ arch[ZipName].zents[i].kind = "symlink"
                /\ arch[ZipName].zents[i].data = last.prefs[p].link

\* UnZip makes a link of a symlink entry
UnZipMakesLinks ==
    (last.op = "UnZip" /\ last.err = "nil") =>
        \A i \in 1..Len(last.log) :
            (last.log[i].typeflag = "symlink" /\ WrittenLast(i)) =>
                /\ Abs(last.log[i].dest) \in DOMAIN fs
                /\ fs[Abs(last.log[i].dest)].kind = "symlink"

\* C25: a symbolic link of the source tree is archived as a symlink entry
\* with its target and no content, and extraction makes it a symbolic link
\* with that target again, by Tar and UnTar and by Zip and UnZip alike
C25_SymlinksKept ==
    /\ TarKeepsLinks
    /\ UnTarMakesLinks
    /\ ZipKeepsLinks
    /\ UnZipMakesLinks

\* UnZip of the archive Zip made of the tree in2, whose entry s is a
\* symbolic link, into a target that was not there: nothing is at out/s
C25_Witness ==
    /\ last.op = "UnZip"
    /\ last.err = "nil"
    /\ last.options = DefaultUnTarOptions
    /\ OutRoot \notin DOMAIN last.prefs
    /\ \E i \in 1..Len(last.log) :
         /\ last.log[i].name = <<"s">>
         /\ last.log[i].typeflag = "symlink"
         /\ last.log[i].data = <<"2", "\n">>
         /\ last.log[i].outcome = "nothing"
    /\ OutPath(S_a_txt) \in DOMAIN fs
    /\ OutPath(<<"s">>) \notin DOMAIN fs

(***************************************************************************)
(* Properties of TarFile.Extract                                           *)
(***************************************************************************)
\* whether the relative path rel begins with a parent reference
EscapesUpward(rel) == rel = DotDot \/ HasPrefix(rel, DotDot \o <<Sep>>)

\* whether the entry named headerName is the archive path name or lies
\* below it
Within(name, headerName) ==
    /\ Rel(name, headerName).err = "nil"
    /\ ~EscapesUpward(Rel(name, headerName).path)

\* Extract passed over the entries that are not within name, and over no
\* others
ExtractSelectsWithin ==
    \A i \in 1..Len(last.log) :
        (last.log[i].outcome = "skipped") = ~Within(last.src, last.log[i].name)

\* an Extract that returned no error read every entry and wrote all those
\* within name
ExtractWroteAll ==
    last.err = "nil" =>
        /\ Len(last.log) = HeaderCount(arch[TarName])
        /\ \A i \in 1..Len(last.log) :
              Within(last.src, last.log[i].name) => last.log[i].outcome = "extracted"

\* the error of a system call that failed is the error Extract returned
ExtractReturnsCause ==
    \A i \in 1..Len(last.log) :
        last.log[i].cause # "nil" => last.err = last.log[i].cause

\* C26: Extract(name, targetDir) writes an entry only when its path relative
\* to name does not lead upward and passes over every other entry without
\* error; with an empty name or "." it writes every entry; an error of the
\* file system met while an entry is written, a failed creation of a
\* directory included, ends the extraction with that error
C26_ExtractWithinOrAborts ==
    last.op = "Extract" =>
        /\ ExtractSelectsWithin
        /\ ExtractWroteAll
        /\ ExtractReturnsCause

\* Extract of everything into a target where a file is in the place of the
\* directory c: os.MkdirAll fails for the entry c, Extract returns nil and
\* the entries after c were not read
C26_Witness ==
    /\ last.op = "Extract"
    /\ last.src = Dot
    /\ last.err = "nil"
    /\ Len(last.log) < HeaderCount(arch[TarName])
    /\ last.log[Len(last.log)].name = S_c
    /\ last.log[Len(last.log)].typeflag = "Dir"
    /\ last.log[Len(last.log)].cause = "ENOTDIR"
    /\ fs[OutPath(S_c)].kind = "file"

(***************************************************************************)
(* Properties of a failed append                                           *)
(***************************************************************************)
\* the last call was a Tar with Append set that opened the archive and
\* failed afterwards
AppendFailed ==
    /\ last.op = "Tar"
    /\ last.options.Append
    /\ last.err # "nil"
    /\ Lstat(last.prefs, last.src).err = "nil"
    /\ openTarFile(last.prearch[TarName], TRUE).err = "nil"

\* ListTar of the file now returns the headers it returned of the file
\* before, and perhaps more after them
StillLists(before, now) ==
    /\ now.err = "nil"
    /\ Len(now.headers) >= Len(before.headers)
    /\ SubSeq(now.headers, 1, Len(before.headers)) = before.headers

\* C27: a Tar with Append set that fails after it opened the archive leaves
\* the archive file in place, and ListTar returns every entry it returned
\* before the call
C27_FailedAppendKeepsArchive ==
    AppendFailed =>
        /\ arch[TarName].kind # "absent"
        /\ ListTar(last.prearch[TarName]).err = "nil" =>
              StillLists(ListTar(last.prearch[TarName]), ListTar(arch[TarName]))

\* an append of the tree in5, whose file e of no bytes cannot be opened, to
\* an archive of six entries: the call fails and the archive is gone
C27_Witness ==
    /\ AppendFailed
    /\ last.src = S_in5
    /\ last.err = "EACCES"
    /\ Len(ListTar(last.prearch[TarName]).headers) = 6
    /\ arch[TarName] = NoFile

(***************************************************************************)
(* Properties of a Tar whose source is missing                             *)
(***************************************************************************)
\* the last call was a Tar of a source path that does not exist
TarOfMissingSource ==
    /\ last.op = "Tar"
    /\ Lstat(last.prefs, last.src).err # "nil"

\* C28: a Tar of a source path that does not exist fails and leaves the
\* archive name as it was: no file is created under it, a file there is
\* neither truncated nor deleted, whatever the options are
C28_MissingSourceLeavesArchive ==
    TarOfMissingSource =>
        /\ last.err = Lstat(last.prefs, last.src).err
        /\ arch = last.prearch
        /\ fs = last.prefs

\* the older Tar of a missing source over the archive of the fixture tree:
\* the archive holds no entry afterwards
C28_Witness ==
    /\ TarOfMissingSource
    /\ last.src = S_nosuch
    /\ last.err = "ENOENT"
    /\ ~last.options.IncludeSourceDir
    /\ last.options.Compression = "Uncompressed"
    /\ HeaderCount(last.prearch[TarName]) = 6
    /\ arch[TarName] = RawFile(<<ZeroBlock, ZeroBlock>>)

(***************************************************************************)
(* Properties of archives that hold one name more than once                *)
(***************************************************************************)
\* entries i and j of the last extraction are regular files with one
\* cleaned name, i the earlier one
SameNameTwice(i, j) ==
    /\ i < j
    /\ Clean(last.log[i].name) = Clean(last.log[j].name)
    /\ last.log[i].typeflag = "Reg"
    /\ last.log[j].typeflag = "Reg"

\* ReadTar returns the first of several entries with the name asked for
ReadTarReturnsFirst ==
    (ReadWholeTar /\ Cardinality(MatchingEntries(last.prearch[TarName], last.src)) > 1) =>
        ReturnedEntry(last.prearch[TarName],
                      FirstMatching(last.prearch[TarName], last.src))

\* of two entries with one name that UnTar extracted, the content of the
\* last one is on disk, unless FlatDir brought a later entry of another
\* name to the same path
LastEntryOnDisk ==
    \A i, j \in 1..Len(last.log) :
        (SameNameTwice(i, j) /\ LastOfItsPath(j) /\ last.log[j].outcome # "filtered") =>
            /\ Abs(last.log[j].dest) \in DOMAIN fs
            /\ fs[Abs(last.log[j].dest)] = FileNode(last.log[j].data)

\* of two entries with one name the first was written and the later ones
\* were passed over, unless a file was there before the call, which stays
FirstEntryOnDisk ==
    \A i, j \in 1..Len(last.log) :
        (SameNameTwice(i, j) /\ FirstOfItsPath(i) /\ last.log[j].outcome # "filtered") =>
            /\ last.log[j].outcome = "kept"
            /\ Abs(last.log[j].dest) \in DOMAIN fs
            /\ fs[Abs(last.log[j].dest)] =
                  IF Abs(last.log[i].dest) \in DOMAIN last.prefs
                  THEN last.prefs[Abs(last.log[i].dest)]
                  ELSE FileNode(last.log[i].data)

\* C29: of several entries with one cleaned name ReadTar returns the first
\* in archive order, and UnTar leaves the content of the last one on disk
C29_ReadFirstExtractLast ==
    /\ ReadTarReturnsFirst
    /\ UnTarSucceeded => LastEntryOnDisk

\* C29, amended: ReadTar returns the first; UnTar leaves the content of the
\* last one on disk when NoOverride is unset, and when it is set that of the
\* first one, or the file that was at the path before the call
C29_ExtractLastUnlessNoOverride ==
    /\ ReadTarReturnsFirst
    /\ (UnTarSucceeded /\ ~last.options.NoOverride) => LastEntryOnDisk
    /\ (UnTarSucceeded /\ last.options.NoOverride) => FirstEntryOnDisk

\* UnTar of an archive with two entries a.txt of different content: the
\* content of the later one is on disk, where ReadTar returns the earlier
C29_Witness ==
    /\ UnTarSucceeded
    /\ ~last.options.NoOverride
    /\ last.prearch[TarName] = RepeatedTar
    /\ SameNameTwice(1, 3)
    /\ last.log[1].outcome = "extracted"
    /\ last.log[3].outcome = "extracted"
    /\ last.log[1].data # last.log[3].data
    /\ fs[Abs(last.log[3].dest)] = FileNode(last.log[3].data)
    /\ ReadTar(RepeatedTar, S_a_txt).data = last.log[1].data

(***************************************************************************)
(* Properties of extraction over directories that are there already        *)
(***************************************************************************)
\* the paths the entries of the last extraction were written to, or would
\* have been
NamedPaths ==
    {Abs(last.log[i].dest) :
        i \in {j \in 1..Len(last.log) :
                  last.log[j].outcome \notin {"filtered", "flatskip"}}}

\* the directories that were under the target before the last call
DirsBefore == {p \in UnderOut(last.prefs) : last.prefs[p].kind = "dir"}

\* the objects directly in the directory d before the last call that are
\* no directories and that no entry names
UnnamedFilesIn(d) ==
    {q \in DOMAIN last.prefs :
        /\ q # d
        /\ Dir(q) = d
        /\ last.prefs[q].kind # "dir"
        /\ q \notin NamedPaths}

\* C30: a directory that was under the target before UnTar or UnZip is a
\* directory afterwards and holds the files it held that no entry names,
\* whatever the archive and the options are and whether the call fails or
\* not, also when an entry that is a regular file or a symbolic link has the
\* directory's path
C30_ExtractionKeepsDirectories ==
    Extraction =>
        \A d \in DirsBefore :
            /\ d \in DOMAIN fs
            /\ fs[d].kind = "dir"
            /\ \A q \in UnnamedFilesIn(d) : q \in DOMAIN fs /\ fs[q] = last.prefs[q]

\* an extraction met an entry that is no directory at the path of the
\* directory out/c, which holds z.txt: the directory and the file are there
C30_Witness ==
    /\ Extraction
    /\ OutPath(S_c) \in DirsBefore
    /\ OutPath(S_c \o <<Sep, "z", ".", "t", "x", "t">>) \in UnnamedFilesIn(OutPath(S_c))
    /\ \E i \in 1..Len(last.log) :
         /\ Abs(last.log[i].dest) = OutPath(S_c)
         /\ last.log[i].typeflag \in {"Reg", "Symlink", "file"}
         /\ last.log[i].outcome = "failed"
    /\ fs[OutPath(S_c)].kind = "dir"
    /\ fs[OutPath(S_c \o <<Sep, "z", ".", "t", "x", "t">>)]
         = last.prefs[OutPath(S_c \o <<Sep, "z", ".", "t", "x", "t">>)]
====
